---------------------------- MODULE Spec2Model ----------------------------
(***************************************************************************)
(* State-machine model of systemprompt-mcp-server:                         *)
(*   - the OAuth 2.1 provider (server/oauth.ts): registration, authorize,  *)
(*     upstream callback, token endpoint, bearer verification;             *)
(*   - the MCP session handler (server/mcp.ts).                            *)
(* Handlers are split at their await points: every action is one           *)
(* run-to-completion slice of a handler on the Node event loop.            *)
(***************************************************************************)
EXTENDS Integers, Sequences, FiniteSets, TLC

(***************************************************************************)
(* Bounds of the model.                                                    *)
(***************************************************************************)
MaxAuthorize == 1
MaxCallbacks == 2
MaxTokenReqs == 2
MaxTicks == 2

(***************************************************************************)
(* Program constants.                                                      *)
(***************************************************************************)
\* A millisecond time stamp or duration is the pair <<s, ms>> that stands for
\* s * 1000 + ms, 0 <= ms < 1000: thirty days of milliseconds do not fit the
\* model checker's 32-bit integers.
Ms(s, ms) == <<s, ms>>
Plus(t, d) ==
    LET ms == t[2] + d[2] IN <<t[1] + d[1] + (ms \div 1000), ms % 1000>>
Earlier(a, b) == a[1] < b[1] \/ (a[1] = b[1] /\ a[2] < b[2])

AUTHORIZATION_CODE_TIMEOUT_MS == Ms(10 * 60, 0)
REFRESH_TOKEN_TIMEOUT_MS == Ms(30 * 24 * 60 * 60, 0)
\* setExpirationTime("24h"), in seconds
TOKEN_LIFETIME_S == 24 * 60 * 60
\* the wall clock when the server starts
StartMs == Ms(1700000, 250)

(***************************************************************************)
(* Strings that the code takes apart are sequences of one-character        *)
(* strings.                                                                *)
(***************************************************************************)
UpperChars == <<"A","B","C","D","E","F","G","H","I","J","K","L","M","N","O","P","Q","R","S","T","U","V","W","X","Y","Z">>
LowerChars == <<"a","b","c","d","e","f","g","h","i","j","k","l","m","n","o","p","q","r","s","t","u","v","w","x","y","z">>
DigitChars == <<"0","1","2","3","4","5","6","7","8","9">>

Range(s) == {s[i] : i \in DOMAIN s}
IsAlpha(c) == c \in Range(UpperChars) \cup Range(LowerChars)
IsAlnum(c) == IsAlpha(c) \/ c \in Range(DigitChars)

ToLower(c) ==
    IF c \in Range(UpperChars)
    THEN LowerChars[CHOOSE i \in DOMAIN UpperChars : UpperChars[i] = c]
    ELSE c

LowerAll(s) == [i \in DOMAIN s |-> ToLower(s[i])]

\* Index of the first element of s at or after position from that lies in
\* stops; Len(s) + 1 when there is none.
FirstOf(s, from, stops) ==
    IF \E i \in from..Len(s) : s[i] \in stops
    THEN CHOOSE i \in from..Len(s) :
            s[i] \in stops /\ \A j \in from..(i - 1) : s[j] \notin stops
    ELSE Len(s) + 1

Slice(s, a, b) == IF a > b THEN << >> ELSE SubSeq(s, a, b)

(***************************************************************************)
(* new URL(uri): the WHATWG parser as far as protocol and hostname go.     *)
(* A string with no scheme has no base to resolve against and throws.      *)
(***************************************************************************)
SpecialSchemes ==
    { <<"h","t","t","p">>, <<"h","t","t","p","s">>, <<"f","t","p">>,
      <<"w","s">>, <<"w","s","s">>, <<"f","i","l","e">> }

UrlFailure == [ok |-> FALSE, protocol |-> << >>, hostname |-> << >>]

\* The host of an authority: what follows the last "@", up to the port.
HostOfAuthority(auth) ==
    LET ats == {i \in DOMAIN auth : auth[i] = "@"}
        start == IF ats = {} THEN 1
                 ELSE (CHOOSE i \in ats : \A j \in ats : j <= i) + 1
        hostport == Slice(auth, start, Len(auth))
        stop == FirstOf(hostport, 1, {":"})
    IN  LowerAll(Slice(hostport, 1, stop - 1))

ParseUrl(s) ==
    LET colon == FirstOf(s, 1, {":"})
        scheme == LowerAll(Slice(s, 1, colon - 1))
        schemeOk ==
            /\ colon <= Len(s)
            /\ colon > 1
            /\ IsAlpha(s[1])
            /\ \A i \in 2..(colon - 1) : IsAlnum(s[i]) \/ s[i] \in {"+", "-", "."}
        rest == Slice(s, colon + 1, Len(s))
        slashes == Len(rest) >= 2 /\ rest[1] \in {"/", "\\"} /\ rest[2] \in {"/", "\\"}
        special == scheme \in SpecialSchemes
        \* a special scheme skips any run of slashes before the authority
        authStart ==
            IF special
            THEN IF \E i \in 1..Len(rest) : rest[i] \notin {"/", "\\"}
                 THEN CHOOSE i \in 1..Len(rest) :
                        rest[i] \notin {"/", "\\"}
                        /\ \A j \in 1..(i - 1) : rest[j] \in {"/", "\\"}
                 ELSE Len(rest) + 1
            ELSE 3
        authEnd == FirstOf(rest, authStart,
                           IF special THEN {"/", "\\", "?", "#"} ELSE {"/", "?", "#"})
        host ==
            IF special \/ slashes
            THEN HostOfAuthority(Slice(rest, authStart, authEnd - 1))
            ELSE << >>
    IN  IF ~schemeOk THEN UrlFailure
        ELSE IF special /\ scheme # <<"f","i","l","e">> /\ host = << >> THEN UrlFailure
        ELSE [ok |-> TRUE, protocol |-> scheme \o <<":">>, hostname |-> host]

\* url.protocol.match(/^[a-zA-Z][a-zA-Z0-9+.-]*:$/)
MatchesCustomScheme(protocol) ==
    /\ Len(protocol) >= 2
    /\ IsAlpha(protocol[1])
    /\ protocol[Len(protocol)] = ":"
    /\ \A i \in 2..(Len(protocol) - 1) :
          IsAlnum(protocol[i]) \/ protocol[i] \in {"+", "-", "."}

HttpsProtocol == <<"h","t","t","p","s",":">>
HttpProtocol == <<"h","t","t","p",":">>
Localhost == <<"l","o","c","a","l","h","o","s","t">>
Loopback == <<"1","2","7",".","0",".","0",".","1">>

\* The if / else-if chain both endpoints run on a parsed URL.
ProtocolAllowed(url) ==
    IF url.protocol = HttpsProtocol THEN TRUE
    ELSE IF url.protocol = HttpProtocol /\ url.hostname \in {Localhost, Loopback} THEN TRUE
    ELSE IF MatchesCustomScheme(url.protocol) THEN TRUE
    ELSE FALSE

\* POST /oauth/register, one element of redirect_uris
RegisterAcceptsUri(uri) ==
    LET url == ParseUrl(uri) IN url.ok /\ ProtocolAllowed(url)

\* GET /oauth/authorize, the try block around new URL(redirect_uri)
AuthorizeAcceptsUri(uri) ==
    LET url == ParseUrl(uri) IN url.ok /\ ProtocolAllowed(url)

U_https == <<"h","t","t","p","s",":","/","/","e","x","a","m","p","l","e",".","c","o","m","/","c","b">>
U_localhost == <<"h","t","t","p",":","/","/","l","o","c","a","l","h","o","s","t",":","5","1","7","3","/","c","b">>
U_loopback == <<"h","t","t","p",":","/","/","1","2","7",".","0",".","0",".","1",":","3","0","0","0","/","c","b">>
U_custom == <<"m","y","a","p","p",":","/","/","c","b">>
U_httpOther == <<"h","t","t","p",":","/","/","e","x","a","m","p","l","e",".","c","o","m","/","c","b">>
U_relative == <<"/","c","b">>
U_upperLocal == <<"H","T","T","P",":","/","/","L","O","C","A","L","H","O","S","T","/","c","b">>
U_userinfo == <<"h","t","t","p",":","/","/","l","o","c","a","l","h","o","s","t","@","e","x","a","m","p","l","e",".","c","o","m","/","c","b">>

RedirectUris ==
    {U_https, U_localhost, U_loopback, U_custom, U_httpOther, U_relative,
     U_upperLocal, U_userinfo}


(***************************************************************************)
(* PKCE.  createHash("sha256").update(verifier).digest("base64url")        *)
(***************************************************************************)
V_rfc == "dBjftJeZ4CVP-mB92K27uhbUJU1p1r_wW1gFWFOEjXk"
V_wrong == "wrong"
Verifiers == {V_rfc, V_wrong}

\* SHA-256 of the verifiers of the model, as the 32 digest bytes.
Sha256(v) ==
    CASE v = V_rfc ->
           <<19,211,30,150,26,26,216,236,47,22,177,12,76,152,46,8,118,168,120,
             173,109,241,68,86,110,225,137,74,203,112,249,195>>
      [] v = V_wrong ->
           <<136,16,173,88,30,89,242,188,57,40,178,97,112,122,113,48,143,126,19,
             158,176,72,32,54,109,196,213,193,141,152,2,37>>

Base64UrlAlphabet == UpperChars \o LowerChars \o DigitChars \o <<"-", "_">>
Base64StdAlphabet == UpperChars \o LowerChars \o DigitChars \o <<"+", "/">>

Pow2(n) == IF n = 0 THEN 1 ELSE IF n = 1 THEN 2 ELSE IF n = 2 THEN 4
           ELSE IF n = 3 THEN 8 ELSE IF n = 4 THEN 16 ELSE IF n = 5 THEN 32
           ELSE IF n = 6 THEN 64 ELSE IF n = 7 THEN 128 ELSE IF n = 8 THEN 256
           ELSE IF n = 9 THEN 512 ELSE 1024

\* The k-th group of six bits of a byte string (zero bits past its end).
SixBits(bytes, k) ==
    LET o == 6 * (k - 1)
        i == (o \div 8) + 1
        r == o % 8
        w == bytes[i] * 256 + (IF i + 1 <= Len(bytes) THEN bytes[i + 1] ELSE 0)
    IN  (w \div Pow2(10 - r)) % 64

Base64Digits(bytes, alphabet) ==
    [k \in 1..((8 * Len(bytes) + 5) \div 6) |-> alphabet[SixBits(bytes, k) + 1]]

\* Buffer.toString("base64url"): URL alphabet, no padding
Base64UrlNoPad(bytes) == Base64Digits(bytes, Base64UrlAlphabet)

\* Buffer.toString("base64"): standard alphabet, padded to a multiple of four
Base64Std(bytes) ==
    LET d == Base64Digits(bytes, Base64StdAlphabet)
        pad == (4 - (Len(d) % 4)) % 4
    IN  d \o [i \in 1..pad |-> "="]

generateCodeChallenge_stdBase64(verifier) == Base64Std(Sha256(verifier))

generateCodeChallenge(verifier) == Base64UrlNoPad(Sha256(verifier))

(***************************************************************************)
(* Bearer tokens: jose SignJWT / jwtVerify with HS256.                     *)
(***************************************************************************)
JWT_SECRET == "jwt-secret"
OAUTH_ISSUER == "https://issuer.example"
AUDIENCE == "reddit-mcp-server"

\* jose's epoch(date)
Epoch(t) == t[1]

\* HMAC over the encoded payload under a key
Hs256(key, payload) == [key |-> key, over |-> payload]

createAccessToken(userId, redditTokens, nowMs) ==
    LET payload ==
            [sub |-> userId,
             reddit_access_token |-> redditTokens.accessToken,
             reddit_refresh_token |-> redditTokens.refreshToken,
             iat |-> Epoch(nowMs),
             exp |-> Epoch(nowMs) + TOKEN_LIFETIME_S,
             aud |-> AUDIENCE,
             iss |-> OAUTH_ISSUER]
    IN  [payload |-> payload, sig |-> Hs256(JWT_SECRET, payload)]

\* jwtVerify(token, secret, {audience, issuer}) at wall-clock nowMs
jwtVerify_noAudience(token, nowMs) ==
    /\ token.sig = Hs256(JWT_SECRET, token.payload)
    /\ token.payload.iss = OAUTH_ISSUER
    /\ ~(token.payload.exp <= Epoch(nowMs))

jwtVerify(token, nowMs) ==
    /\ token.sig = Hs256(JWT_SECRET, token.payload)
    /\ token.payload.iss = OAUTH_ISSUER
    /\ token.payload.aud = AUDIENCE
    /\ ~(token.payload.exp <= Epoch(nowMs))

InvalidToken == [ok |-> FALSE, error |-> "Invalid or expired access token"]

verifyAccessToken(token, nowMs) ==
    IF jwtVerify(token, nowMs)
    THEN [ok |-> TRUE,
          expiresAt |-> token.payload.exp,
          userId |-> token.payload.sub,
          redditAccessToken |-> token.payload.reddit_access_token,
          redditRefreshToken |-> token.payload.reddit_refresh_token]
    ELSE InvalidToken


(***************************************************************************)
(* State.                                                                  *)
(***************************************************************************)
VARIABLES
    now,                    \* Date.now()
    ticks,                  \* clock advances made so far
    nextId,                 \* the next value randomBytes(32) returns
    pendingAuthorizations,  \* Map authKey -> PendingAuthorization
    authorizationCodes,     \* Map code -> AuthorizationCode
    refreshTokens,          \* Map id -> RefreshTokenData
    timers,                 \* setTimeout callbacks not yet run
    nAuthorize,             \* GET /oauth/authorize requests served
    authorizeResp,          \* the response to the last of them
    registerResp,           \* the response to the last POST /oauth/register
    callbacks,              \* GET /oauth/reddit/callback requests, by slot
    tokenReqs,              \* POST /oauth/token requests, by slot
    sessions,               \* MCPHandler.sessions: Map sessionId -> SessionInfo
    nextSession,            \* numbers the session ids minted so far
    mcpResp,                \* the last /mcp request: its response, and the
                            \* tool call or resource read it ran, if any
    closedTransports,       \* ids of the sessions whose transport.close() ran
    samplingCalls,          \* server.createMessage() calls, in order of issue
    samplingLast,           \* the last sendSamplingRequest() call: its number,
                            \* its session id and the error it threw at once
    outbox,                 \* what the servers sent to their clients: the
                            \* sampling requests and the notifications
    notified,               \* the last call of sendNotification by a handler
    rpc,                    \* the last tools/call, resources/read or prompts/get
                            \* a session's server handled, and its outcome
    fetch,                  \* a call of redditFetch, its recursive calls included
    shutdown,               \* MCPHandler.shutdown: when it ran and what it closed
    held,                   \* a bearer in a client's hands
    verdict                 \* the last verifyAccessToken or authMiddleware call
                            \* and its result

oauthVars ==
    <<now, ticks, nextId, pendingAuthorizations, authorizationCodes,
      refreshTokens, timers, nAuthorize, authorizeResp, registerResp,
      callbacks, tokenReqs>>

\* the OAuth tables and requests, without the clock
oauthState ==
    <<nextId, pendingAuthorizations, authorizationCodes, refreshTokens, timers,
      nAuthorize, authorizeResp, registerResp, callbacks, tokenReqs>>

mcpVars == <<sessions, nextSession, mcpResp, closedTransports, samplingCalls>>

samplingVars == <<samplingLast, outbox, notified>>

handlerVars == <<rpc, fetch, shutdown>>

verifyVars == <<held, verdict>>

\* what the OAuth endpoints, and what the /mcp endpoint, never touch
nonOAuthVars == <<mcpVars, samplingVars, handlerVars, verifyVars>>
nonMcpVars == <<oauthState, samplingVars, handlerVars, verifyVars>>
nonSamplingVars == <<oauthState, handlerVars, verifyVars>>

\* Map.set / Map.delete on a function whose domain is the set of keys
MapSet(m, k, v) == [x \in (DOMAIN m) \cup {k} |-> IF x = k THEN v ELSE m[x]]
MapDelete(m, k) == [x \in (DOMAIN m) \ {k} |-> m[x]]
EmptyMap == << >>

NoResponse == [status |-> 0, error |-> ""]
ErrorResponse(status, error) == [status |-> status, error |-> error]

\* A string parameter the request does not carry (undefined, falsy)
Missing == ""
\* An identifier that is not there: a missing code or refresh_token, the
\* second element of a destructured one-element array
Undefined == -1
\* An identifier the server never issued
BogusId == 0

(***************************************************************************)
(* POST /oauth/register                                                    *)
(***************************************************************************)
DefaultRedirectUris == <<U_localhost>>
\* An array element that is not a string (a JSON number)
NotAString == <<"#number">>

\* redirect_uris of a registration request: absent (<< >> stands for a
\* body without the field), or an array of at most two elements
RegisterInputs ==
    LET elems == RedirectUris \cup {NotAString}
    IN  {[present |-> FALSE, uris |-> << >>]}
        \cup {[present |-> TRUE, uris |-> <<a>>] : a \in elems}
        \cup {[present |-> TRUE, uris |-> <<a, b>>] : a \in elems, b \in elems}

\* The for loop over redirect_uris: the index of the first element that is
\* answered with 400, or 0
FirstRejected(uris) ==
    LET bad == {i \in DOMAIN uris :
                    uris[i] = NotAString \/ ~RegisterAcceptsUri(uris[i])}
    IN  IF bad = {} THEN 0 ELSE CHOOSE i \in bad : \A j \in bad : i <= j

RegisterResponse(body) ==
    \* `redirect_uris && Array.isArray(redirect_uris)`: an empty array is
    \* truthy, so it is validated (to an empty list)
    IF ~body.present
    THEN [status |-> 200, error |-> "", redirect_uris |-> DefaultRedirectUris]
    ELSE IF FirstRejected(body.uris) # 0
    THEN ErrorResponse(400, "invalid_redirect_uri")
    ELSE [status |-> 200, error |-> "", redirect_uris |-> body.uris]

Register(body) ==
    /\ registerResp' = RegisterResponse(body)
    /\ UNCHANGED <<now, ticks, nextId, pendingAuthorizations, authorizationCodes,
                   refreshTokens, timers, nAuthorize, authorizeResp, callbacks,
                   tokenReqs>>
    /\ UNCHANGED nonOAuthVars

(***************************************************************************)
(* GET /oauth/authorize                                                    *)
(***************************************************************************)
PUBLIC_CLIENT == "mcp-public-client"
GoodChallenge == Base64UrlNoPad(Sha256(V_rfc))

AuthorizeRequest(uri, challenge) ==
    [client_id |-> PUBLIC_CLIENT, redirect_uri |-> uri, response_type |-> "code",
     code_challenge |-> challenge, code_challenge_method |-> "S256",
     state |-> "abc", scope |-> Missing]

\* The synchronous checks of the handler, in order; "" when all pass
AuthorizeError(q) ==
    IF q.client_id = Missing \/ q.redirect_uri = << >> \/ q.code_challenge = << >>
    THEN "invalid_request"
    ELSE IF q.response_type # "code" THEN "unsupported_response_type"
    ELSE IF q.code_challenge_method # "S256" THEN "invalid_request"
    ELSE IF ~AuthorizeAcceptsUri(q.redirect_uri) THEN "invalid_request"
    ELSE ""

\* `${authKey}:${redditState}` as its ":"-separated segments
FormatState(authKey, redditState) == <<authKey, redditState>>

Authorize(q) ==
    /\ nAuthorize < MaxAuthorize
    /\ nAuthorize' = nAuthorize + 1
    /\ IF AuthorizeError(q) # ""
       THEN /\ authorizeResp' = ErrorResponse(400, AuthorizeError(q))
            /\ UNCHANGED <<nextId, pendingAuthorizations, timers>>
       ELSE LET redditState == nextId
                authKey == nextId + 1
            IN  /\ nextId' = nextId + 2
                /\ pendingAuthorizations' =
                      MapSet(pendingAuthorizations, authKey,
                             [clientId |-> q.client_id,
                              redirectUri |-> q.redirect_uri,
                              codeChallenge |-> q.code_challenge,
                              codeChallengeMethod |-> q.code_challenge_method,
                              state |-> q.state,
                              scope |-> IF q.scope = Missing THEN "read" ELSE q.scope,
                              redditState |-> redditState])
                /\ timers' = timers \cup
                      {[authKey |-> authKey, at |-> Plus(now, AUTHORIZATION_CODE_TIMEOUT_MS)]}
                /\ authorizeResp' =
                      [status |-> 302, error |-> "",
                       upstreamState |-> FormatState(authKey, redditState)]
    /\ UNCHANGED <<now, ticks, authorizationCodes, refreshTokens, registerResp,
                   callbacks, tokenReqs>>
    /\ UNCHANGED nonOAuthVars

\* setTimeout(() => this.pendingAuthorizations.delete(authKey), ...)
PendingTimeout ==
    \E t \in timers :
        /\ ~Earlier(now, t.at)
        /\ pendingAuthorizations' = MapDelete(pendingAuthorizations, t.authKey)
        /\ timers' = timers \ {t}
        /\ UNCHANGED <<now, ticks, nextId, authorizationCodes, refreshTokens,
                       nAuthorize, authorizeResp, registerResp, callbacks, tokenReqs>>
    /\ UNCHANGED nonOAuthVars


(***************************************************************************)
(* GET /oauth/reddit/callback.  The handler awaits the upstream twice      *)
(* (exchangeRedditCode, then the identity fetch); other requests run in    *)
(* between.                                                                *)
(***************************************************************************)
NoPending == [none |-> TRUE]
NoTokens == [none |-> TRUE]

IdleCallback ==
    [pc |-> "idle", code |-> Missing, state |-> << >>, err |-> Missing,
     pendingAuth |-> NoPending, redditTokens |-> NoTokens,
     status |-> 0, error |-> "", location |-> << >>]

\* What the upstream token endpoint may answer with a 2xx
UpstreamPairs ==
    {[access_token |-> "A", refresh_token |-> "R"],
     [access_token |-> "A2", refresh_token |-> "R2"]}

\* The account an upstream access token belongs to (GET /api/v1/me)
UpstreamUser(accessToken) == IF accessToken = "A" THEN "alice" ELSE "bob"

\* state values a callback may carry: the one the upstream was given, and
\* variations of it
CallbackStates ==
    {<<BogusId, BogusId>>}
    \cup (IF authorizeResp.status = 302
          THEN {authorizeResp.upstreamState,
                <<authorizeResp.upstreamState[1], BogusId>>,
                <<authorizeResp.upstreamState[1]>>}
          ELSE {})

CallbackInputs ==
    {[code |-> "xyz", state |-> st, err |-> Missing] : st \in CallbackStates}
    \cup {[code |-> "xyz", state |-> <<BogusId, BogusId>>, err |-> "access_denied"],
          [code |-> Missing, state |-> <<BogusId, BogusId>>, err |-> Missing]}

\* The response; redditTokens stays as the record of what the upstream
\* answered
CallbackDone(cb, status, error, location) ==
    [IdleCallback EXCEPT !.pc = "done", !.code = cb.code, !.state = cb.state,
                         !.err = cb.err, !.redditTokens = cb.redditTokens,
                         !.status = status, !.error = error,
                         !.location = location]

\* redditTokens: {accessToken: ..., refreshToken: ...} of the new code
StoredTokens_swapped(redditTokens) ==
    [accessToken |-> redditTokens.refresh_token,
     refreshToken |-> redditTokens.access_token]

StoredTokens(redditTokens) ==
    [accessToken |-> redditTokens.access_token,
     refreshToken |-> redditTokens.refresh_token]

\* const [authKey, redditState] = state.split(":")
SplitAuthKey(state) == state[1]

\* the nonce of the request is not looked at
SplitRedditState_stored(state) ==
    IF state[1] \in DOMAIN pendingAuthorizations
    THEN pendingAuthorizations[state[1]].redditState
    ELSE Undefined

SplitRedditState(state) == IF Len(state) >= 2 THEN state[2] ELSE Undefined

\* From the request's arrival to the first await
CallbackBegin(i, q) ==
    /\ callbacks[i].pc = "idle"
    /\ \A j \in 1..(i - 1) : callbacks[j].pc # "idle"
    /\ LET cb == [IdleCallback EXCEPT !.code = q.code, !.state = q.state, !.err = q.err]
           authKey == SplitAuthKey(q.state)
           found == authKey \in DOMAIN pendingAuthorizations
       IN  callbacks' = [callbacks EXCEPT ![i] =
              IF q.err # Missing
              THEN CallbackDone(cb, 400, "access_denied", << >>)
              ELSE IF q.code = Missing \/ q.state = << >>
              THEN CallbackDone(cb, 400, "invalid_request", << >>)
              ELSE IF ~found
                      \/ pendingAuthorizations[authKey].redditState
                            # SplitRedditState(q.state)
              THEN CallbackDone(cb, 400, "invalid_request", << >>)
              ELSE [cb EXCEPT !.pc = "exchange",
                              !.pendingAuth = pendingAuthorizations[authKey]]]
    /\ UNCHANGED <<now, ticks, nextId, pendingAuthorizations, authorizationCodes,
                   refreshTokens, timers, nAuthorize, authorizeResp, registerResp,
                   tokenReqs>>
    /\ UNCHANGED nonOAuthVars

\* exchangeRedditCode resolves with the upstream's tokens; the handler goes
\* on to fetch the identity
CallbackExchanged(i) ==
    /\ callbacks[i].pc = "exchange"
    /\ \E pair \in UpstreamPairs :
          callbacks' = [callbacks EXCEPT ![i].pc = "identify",
                                         ![i].redditTokens = pair]
    /\ UNCHANGED <<now, ticks, nextId, pendingAuthorizations, authorizationCodes,
                   refreshTokens, timers, nAuthorize, authorizeResp, registerResp,
                   tokenReqs>>
    /\ UNCHANGED nonOAuthVars

\* A non-2xx answer of either upstream endpoint throws into the catch block
CallbackUpstreamFailed(i) ==
    /\ callbacks[i].pc \in {"exchange", "identify"}
    /\ callbacks' = [callbacks EXCEPT ![i] =
          CallbackDone(callbacks[i], 500, "server_error", << >>)]
    /\ UNCHANGED <<now, ticks, nextId, pendingAuthorizations, authorizationCodes,
                   refreshTokens, timers, nAuthorize, authorizeResp, registerResp,
                   tokenReqs>>
    /\ UNCHANGED nonOAuthVars

\* redirectUrl: the caller's redirect URI with `code` and `state` set
CallbackRedirect_noState(pendingAuth, authorizationCode) ==
    <<pendingAuth.redirectUri, authorizationCode, Missing>>

CallbackRedirect(pendingAuth, authorizationCode) ==
    <<pendingAuth.redirectUri, authorizationCode, pendingAuth.state>>

\* The identity fetch resolves: create the code, delete the pending row,
\* redirect to the caller
CallbackIdentified(i) ==
    /\ callbacks[i].pc = "identify"
    /\ LET cb == callbacks[i]
           pendingAuth == cb.pendingAuth
           authKey == SplitAuthKey(cb.state)
           userId == UpstreamUser(cb.redditTokens.access_token)
           authorizationCode == nextId
       IN  /\ nextId' = nextId + 1
           /\ authorizationCodes' =
                 MapSet(authorizationCodes, authorizationCode,
                        [clientId |-> pendingAuth.clientId,
                         redirectUri |-> pendingAuth.redirectUri,
                         codeChallenge |-> pendingAuth.codeChallenge,
                         userId |-> userId,
                         redditTokens |-> StoredTokens(cb.redditTokens),
                         expiresAt |-> Plus(now, AUTHORIZATION_CODE_TIMEOUT_MS)])
           /\ pendingAuthorizations' = MapDelete(pendingAuthorizations, authKey)
           /\ callbacks' = [callbacks EXCEPT ![i] =
                 IF ParseUrl(pendingAuth.redirectUri).ok
                 THEN CallbackDone(cb, 302, "",
                                   CallbackRedirect(pendingAuth, authorizationCode))
                 ELSE CallbackDone(cb, 500, "server_error", << >>)]
    /\ UNCHANGED <<now, ticks, refreshTokens, timers, nAuthorize, authorizeResp,
                   registerResp, tokenReqs>>
    /\ UNCHANGED nonOAuthVars


(***************************************************************************)
(* POST /oauth/token.  Both grants await createAccessToken (WebCrypto      *)
(* signing) between reading the row and answering.                         *)
(***************************************************************************)
NoRow == [none |-> TRUE]
NoBearer == [none |-> TRUE]

IdleTokenReq ==
    [pc |-> "idle", grant_type |-> Missing, code |-> BogusId,
     code_verifier |-> Missing, refresh_token |-> BogusId,
     redirect_uri |-> << >>, client_id |-> Missing,
     row |-> NoRow, status |-> 0, error |-> "", error_description |-> "",
     access_token |-> NoBearer, refresh_token_out |-> BogusId,
     \* history: a redemption of this code had already succeeded on arrival
     afterSuccess |-> FALSE]

\* Codes the callback has handed to a caller
IssuedCodes ==
    {callbacks[i].location[2] : i \in {j \in DOMAIN callbacks : callbacks[j].status = 302}}

\* Refresh tokens the token endpoint has handed out
IssuedRefreshTokens ==
    {tokenReqs[i].refresh_token_out :
        i \in {j \in DOMAIN tokenReqs : tokenReqs[j].refresh_token_out # BogusId}}

TokenInputs ==
    {[grant_type |-> "authorization_code", code |-> c, code_verifier |-> v,
      redirect_uri |-> U_localhost, client_id |-> PUBLIC_CLIENT,
      refresh_token |-> BogusId] :
        c \in IssuedCodes \cup {BogusId}, v \in Verifiers}
    \cup {[grant_type |-> "refresh_token", code |-> BogusId, code_verifier |-> Missing,
           redirect_uri |-> << >>, client_id |-> Missing, refresh_token |-> r] :
             r \in IssuedRefreshTokens \cup {BogusId}}
    \cup {[grant_type |-> g, code |-> Undefined, code_verifier |-> Missing,
           redirect_uri |-> << >>, client_id |-> Missing, refresh_token |-> Undefined] :
             g \in {"authorization_code", "refresh_token", "password"}}

TokenDone(rq, status, error, bearer, refreshId) ==
    [rq EXCEPT !.pc = "done", !.row = NoRow, !.status = status, !.error = error,
               !.access_token = bearer, !.refresh_token_out = refreshId]

TokenFailed(rq, error, description) ==
    [TokenDone(rq, 400, error, NoBearer, BogusId) EXCEPT
        !.error_description = description]

\* `!row || row.expiresAt < Date.now()` for a row that is there
IsExpired_never(row) == FALSE

IsExpired(row) == Earlier(row.expiresAt, now)

\* this.authorizationCodes.delete(code) after the tokens are made
ConsumeCode_keep(code) == authorizationCodes

ConsumeCode(code) == MapDelete(authorizationCodes, code)

RedeemedBefore(code) ==
    \E j \in DOMAIN tokenReqs :
        /\ tokenReqs[j].pc = "done"
        /\ tokenReqs[j].status = 200
        /\ tokenReqs[j].grant_type = "authorization_code"
        /\ tokenReqs[j].code = code

\* From the request's arrival to `await this.createAccessToken(...)`, or to
\* the response when a check fails first
TokenBegin(i, q) ==
    /\ tokenReqs[i].pc = "idle"
    /\ \A j \in 1..(i - 1) : tokenReqs[j].pc # "idle"
    /\ LET rq == [IdleTokenReq EXCEPT
                     !.grant_type = q.grant_type, !.code = q.code,
                     !.code_verifier = q.code_verifier,
                     !.redirect_uri = q.redirect_uri, !.client_id = q.client_id,
                     !.refresh_token = q.refresh_token,
                     !.afterSuccess = (q.grant_type = "authorization_code"
                                       /\ RedeemedBefore(q.code))]
       IN
       IF q.grant_type = "authorization_code"
       THEN IF q.code = Undefined \/ q.redirect_uri = << >>
               \/ q.code_verifier = Missing \/ q.client_id = Missing
            THEN /\ tokenReqs' = [tokenReqs EXCEPT ![i] =
                        TokenFailed(rq, "invalid_request",
                                    "Missing required parameters")]
                 /\ UNCHANGED <<authorizationCodes, refreshTokens>>
            ELSE IF q.code \notin DOMAIN authorizationCodes
                    \/ IsExpired(authorizationCodes[q.code])
            THEN /\ authorizationCodes' = MapDelete(authorizationCodes, q.code)
                 /\ tokenReqs' = [tokenReqs EXCEPT ![i] =
                        TokenFailed(rq, "invalid_grant",
                                    "Invalid or expired authorization code")]
                 /\ UNCHANGED refreshTokens
            ELSE IF generateCodeChallenge(q.code_verifier)
                        # authorizationCodes[q.code].codeChallenge
            THEN /\ tokenReqs' = [tokenReqs EXCEPT ![i] =
                        TokenFailed(rq, "invalid_grant",
                                    "Invalid code verifier")]
                 /\ UNCHANGED <<authorizationCodes, refreshTokens>>
            ELSE LET authCode == authorizationCodes[q.code]
                 IN  /\ tokenReqs' = [tokenReqs EXCEPT ![i] =
                            [rq EXCEPT !.pc = "signing", !.row = authCode,
                                       !.access_token =
                                           createAccessToken(authCode.userId,
                                                             authCode.redditTokens,
                                                             now)]]
                     /\ UNCHANGED <<authorizationCodes, refreshTokens>>
       ELSE IF q.grant_type = "refresh_token"
       THEN IF q.refresh_token = Undefined
            THEN /\ tokenReqs' = [tokenReqs EXCEPT ![i] =
                        TokenFailed(rq, "invalid_request",
                                    "Missing refresh token")]
                 /\ UNCHANGED <<authorizationCodes, refreshTokens>>
            ELSE IF q.refresh_token \notin DOMAIN refreshTokens
                    \/ IsExpired(refreshTokens[q.refresh_token])
            THEN /\ refreshTokens' = MapDelete(refreshTokens, q.refresh_token)
                 /\ tokenReqs' = [tokenReqs EXCEPT ![i] =
                        TokenFailed(rq, "invalid_grant",
                                    "Invalid or expired refresh token")]
                 /\ UNCHANGED authorizationCodes
            ELSE LET tokenData == refreshTokens[q.refresh_token]
                 IN  /\ tokenReqs' = [tokenReqs EXCEPT ![i] =
                            [rq EXCEPT !.pc = "signing", !.row = tokenData,
                                       !.access_token =
                                           createAccessToken(tokenData.userId,
                                                             tokenData.redditTokens,
                                                             now)]]
                     /\ UNCHANGED <<authorizationCodes, refreshTokens>>
       ELSE /\ tokenReqs' = [tokenReqs EXCEPT ![i] =
                  TokenFailed(rq, "unsupported_grant_type",
                                    "Only authorization_code and refresh_token grant types are supported")]
            /\ UNCHANGED <<authorizationCodes, refreshTokens>>
    /\ UNCHANGED <<now, ticks, nextId, pendingAuthorizations, timers, nAuthorize,
                   authorizeResp, registerResp, callbacks>>
    /\ UNCHANGED nonOAuthVars

\* the refresh_token grant rotated: the presented token is withdrawn
RedeemRefreshToken_rotated(token) == MapDelete(refreshTokens, token)

\* this.refreshTokens after a successful refresh_token grant: the handler
\* only reads the row, it neither deletes nor rewrites it
RedeemRefreshToken(token) == refreshTokens

\* createAccessToken has resolved: the rest of the handler
TokenSigned(i) ==
    /\ tokenReqs[i].pc = "signing"
    /\ LET rq == tokenReqs[i]
       IN  IF rq.grant_type = "authorization_code"
           THEN LET refreshTokenId == nextId
                IN  /\ nextId' = nextId + 1
                    /\ refreshTokens' =
                          MapSet(refreshTokens, refreshTokenId,
                                 [userId |-> rq.row.userId,
                                  clientId |-> rq.row.clientId,
                                  redditTokens |-> rq.row.redditTokens,
                                  expiresAt |-> Plus(now, REFRESH_TOKEN_TIMEOUT_MS)])
                    /\ authorizationCodes' = ConsumeCode(rq.code)
                    /\ tokenReqs' = [tokenReqs EXCEPT ![i] =
                          TokenDone(rq, 200, "", rq.access_token, refreshTokenId)]
           ELSE /\ tokenReqs' = [tokenReqs EXCEPT ![i] =
                      TokenDone(rq, 200, "", rq.access_token, BogusId)]
                /\ refreshTokens' = RedeemRefreshToken(rq.refresh_token)
                /\ UNCHANGED <<nextId, authorizationCodes>>
    /\ UNCHANGED <<now, ticks, pendingAuthorizations, timers, nAuthorize,
                   authorizeResp, registerResp, callbacks>>
    /\ UNCHANGED nonOAuthVars


(***************************************************************************)
(* The clock.                                                              *)
(***************************************************************************)
TickSteps == {REFRESH_TOKEN_TIMEOUT_MS}

Tick ==
    /\ ticks < MaxTicks
    /\ ticks' = ticks + 1
    /\ \E d \in TickSteps : now' = Plus(now, d)
    /\ UNCHANGED <<nextId, pendingAuthorizations, authorizationCodes, refreshTokens,
                   timers, nAuthorize, authorizeResp, registerResp, callbacks,
                   tokenReqs>>
    /\ UNCHANGED nonOAuthVars

(***************************************************************************)
(* /mcp: authMiddleware, then MCPHandler.handleRequest.                    *)
(***************************************************************************)
MaxSessions == 2

SESSION_TIMEOUT_MS == Ms(60 * 60, 0)
JANITOR_INTERVAL_MS == Ms(5 * 60, 0)

NoAuth == [none |-> TRUE]
NoSession == 0
UnknownSession == -1

\* Bearers a client may hold: minted by the token endpoint for two users,
\* and one that a third party signed
AliceBearer ==
    createAccessToken("alice", [accessToken |-> "A", refreshToken |-> "R"], StartMs)
BobBearer ==
    createAccessToken("bob", [accessToken |-> "A2", refreshToken |-> "R2"], StartMs)
ForgedBearer ==
    [payload |-> AliceBearer.payload,
     sig |-> Hs256("other-secret", AliceBearer.payload)]
Bearers == {AliceBearer, BobBearer, ForgedBearer}

\* The upstream credentials a verified bearer carries
SessionAuthOf(auth) ==
    IF auth.ok /\ auth.redditAccessToken # ""
    THEN [accessToken |-> auth.redditAccessToken,
          refreshToken |-> auth.redditRefreshToken,
          username |-> auth.userId]
    ELSE NoAuth

McpMethods == {"initialize", "tools/call", "resources/read", "DELETE"}

McpInputs ==
    {[bearer |-> b, sessionId |-> sid, method |-> m] :
        b \in Bearers,
        sid \in (DOMAIN sessions) \cup {NoSession, UnknownSession},
        m \in McpMethods}

NoExecution == [none |-> TRUE]

McpResponse(status, error, sessionId) ==
    [status |-> status, error |-> error, sessionId |-> sessionId,
     execution |-> NoExecution]

\* The request handler that createServer(sessionId, sessionAuth) registers for
\* tools/call and for resources/read of reddit://config: the credentials it
\* runs with are the sessionAuth of its closure
Dispatch(req, sessionId, sessionAuth) ==
    IF sessionAuth = NoAuth
    THEN [ran |-> FALSE, error |-> "Authentication required"]
    ELSE [ran |-> TRUE, error |-> ""]

Execution(req, sessionId, sessionAuth) ==
    [method |-> req.method,
     sessionId |-> sessionId,
     \* who sent the request: the subject and the upstream access token
     \* of its bearer
     caller |-> req.bearer.payload.sub,
     callerAccessToken |-> req.bearer.payload.reddit_access_token,
     \* the upstream credentials the handler ran with
     accessToken |-> sessionAuth.accessToken,
     refreshToken |-> sessionAuth.refreshToken,
     username |-> sessionAuth.username]

\* transport.handleRequest of the session's StreamableHTTPServerTransport:
\* a JSON-RPC request by POST, or the HTTP DELETE by which a client ends its
\* session (the transport closes itself).  A transport that was closed still
\* passes the request to the handlers registered on it; the server, no
\* longer connected, sends no answer on the opened response.
TransportHandle(req, sessionId, info) ==
    IF req.method = "initialize"
    THEN IF info.initialized
         THEN [resp |-> McpResponse(400, "Server already initialized", sessionId),
               initialized |-> TRUE, ran |-> FALSE, closed |-> FALSE]
         ELSE [resp |-> McpResponse(200, "", sessionId),
               initialized |-> TRUE, ran |-> FALSE, closed |-> FALSE]
    ELSE IF ~info.initialized
    THEN [resp |-> McpResponse(400, "Server not initialized", sessionId),
          initialized |-> FALSE, ran |-> FALSE, closed |-> FALSE]
    ELSE IF req.method = "DELETE"
    THEN [resp |-> McpResponse(200, "", sessionId),
          initialized |-> TRUE, ran |-> FALSE, closed |-> TRUE]
    ELSE LET d == Dispatch(req, sessionId, info.serverAuth)
         IN  [resp |-> McpResponse(200, d.error, sessionId),
              initialized |-> TRUE, ran |-> d.ran, closed |-> FALSE]

\* Protocol._onclose of the servers whose transport closes at time `at`:
\* every response handler still registered is called with ConnectionClosed
CloseCalls_none(calls, sids, at) == calls

CloseCalls(calls, sids, at) ==
    [c \in DOMAIN calls |->
        IF calls[c].pc = "pending" /\ calls[c].sessionId \in sids
        THEN [calls[c] EXCEPT !.pc = "resolved", !.outcome = "connection_closed",
                              !.resolutions = @ + 1]
        ELSE calls[c]]

\* authMiddleware on a request with an `Authorization: Bearer` header: the
\* status and error it answers with, 0 when it calls next()
AuthMiddlewareStatus_open(auth) == 0

AuthMiddlewareStatus(auth) == IF auth.ok THEN 0 ELSE 401
AuthMiddlewareError(auth) == IF auth.ok THEN "" ELSE "invalid_token"

\* `const isInitRequest = !sessionId`
IsInitRequest_unknown(req) == req.sessionId \notin DOMAIN sessions

IsInitRequest(req) == req.sessionId = NoSession

\* `sessionInfo.lastAccessed = new Date()`
Touch_skipped(info, at) == info

Touch(info, at) == [info EXCEPT !.lastAccessed = at]

\* "Update auth if provided": a session without credentials takes those of
\* the request and gets a server built with them
UpdateAuth_assigned(info, sessionAuth) ==
    LET a == IF sessionAuth # NoAuth /\ info.auth = NoAuth THEN sessionAuth ELSE NoAuth
    IN  [info EXCEPT !.auth = a, !.serverAuth = a]

UpdateAuth(info, sessionAuth) ==
    IF sessionAuth # NoAuth /\ info.auth = NoAuth
    THEN [info EXCEPT !.auth = sessionAuth, !.serverAuth = sessionAuth]
    ELSE info

McpRequest(req) ==
    LET auth == verifyAccessToken(req.bearer, now)
    IN
    /\ IF AuthMiddlewareStatus(auth) # 0
       THEN \* handleRequest does not run
            /\ mcpResp' = McpResponse(AuthMiddlewareStatus(auth),
                                      AuthMiddlewareError(auth), NoSession)
            /\ UNCHANGED <<sessions, nextSession, closedTransports, samplingCalls>>
       ELSE IF IsInitRequest(req)
       THEN \* a new session with a server of its own
            /\ nextSession < MaxSessions
            /\ LET sessionId == nextSession + 1
                   sessionAuth == SessionAuthOf(auth)
                   info == [auth |-> sessionAuth, serverAuth |-> sessionAuth,
                            initialized |-> FALSE,
                            \* createdAt, which nothing reads, is left out
                            lastAccessed |-> now]
                   t == TransportHandle(req, sessionId, info)
               IN  /\ nextSession' = sessionId
                   /\ sessions' = MapSet(sessions, sessionId,
                                         [info EXCEPT !.initialized = t.initialized])
                   /\ mcpResp' =
                         IF t.ran
                         THEN [t.resp EXCEPT
                                 !.execution = Execution(req, sessionId, sessionAuth)]
                         ELSE t.resp
                   /\ UNCHANGED <<closedTransports, samplingCalls>>
       ELSE IF req.sessionId \notin DOMAIN sessions
       THEN /\ mcpResp' = McpResponse(404, "Session not found", NoSession)
            /\ UNCHANGED <<sessions, nextSession, closedTransports, samplingCalls>>
       ELSE LET sessionId == req.sessionId
                old == sessions[sessionId]
                info == UpdateAuth(Touch(old, now), SessionAuthOf(auth))
                t == TransportHandle(req, sessionId, info)
            IN  /\ sessions' = MapSet(sessions, sessionId,
                                      [info EXCEPT !.initialized = t.initialized])
                /\ mcpResp' =
                      IF t.ran
                      THEN [t.resp EXCEPT
                              !.execution = Execution(req, sessionId, info.serverAuth)]
                      ELSE t.resp
                /\ closedTransports' =
                      IF t.closed THEN closedTransports \cup {sessionId}
                      ELSE closedTransports
                /\ samplingCalls' =
                      IF t.closed THEN CloseCalls(samplingCalls, {sessionId}, now)
                      ELSE samplingCalls
                /\ UNCHANGED nextSession
    /\ UNCHANGED <<now, ticks>>
    /\ UNCHANGED nonMcpVars

\* The sessions a run of cleanupOldSessions at time `at` closes and deletes:
\* `now - sessionInfo.lastAccessed.getTime() > this.SESSION_TIMEOUT_MS`
cleanupOldSessions_none(at) == {}

cleanupOldSessions(at) ==
    {sid \in DOMAIN sessions :
        Earlier(Plus(sessions[sid].lastAccessed, SESSION_TIMEOUT_MS), at)}

NoShutdown == [none |-> TRUE]

\* No call of redditFetch yet
IdleFetch ==
    [pc |-> "idle", isRetry |-> FALSE, tokenValid |-> TRUE, status |-> 0,
     requests |-> 0, refreshes |-> 0, retries |-> 0, outcome |-> ""]

McpInit ==
    /\ sessions = EmptyMap
    /\ nextSession = 0
    /\ mcpResp = McpResponse(0, "", NoSession)
    /\ closedTransports = {}
    /\ samplingCalls = << >>
    /\ samplingLast = [n |-> 0, sessionId |-> NoSession, error |-> ""]
    /\ outbox = << >>
    /\ notified = [n |-> 0, method |-> "", sessionId |-> NoSession]
    /\ rpc = [none |-> TRUE]
    /\ fetch = IdleFetch
    /\ shutdown = NoShutdown

\* setInterval(..., 5 * 60 * 1000) of the constructor, which runs at StartMs:
\* how many times the callback has run by time t, and when it last did
IntervalRuns(t) ==
    (t[1] - StartMs[1] - (IF t[2] < StartMs[2] THEN 1 ELSE 0))
        \div JANITOR_INTERVAL_MS[1]

LastIntervalRun(t) == Ms(StartMs[1] + IntervalRuns(t) * JANITOR_INTERVAL_MS[1], StartMs[2])

\* The request timer of Protocol.request: pending calls whose deadline has
\* come are rejected with RequestTimeout
ExpireCalls_uncleared(calls, at) ==
    [c \in DOMAIN calls |->
        IF calls[c].pc \in {"pending", "resolved"} /\ ~Earlier(at, calls[c].deadline)
           /\ calls[c].outcome # "timeout"
        THEN [calls[c] EXCEPT !.pc = "resolved", !.outcome = "timeout",
                              !.resolutions = @ + 1]
        ELSE calls[c]]

ExpireCalls(calls, at) ==
    [c \in DOMAIN calls |->
        IF calls[c].pc = "pending" /\ ~Earlier(at, calls[c].deadline)
        THEN [calls[c] EXCEPT !.pc = "resolved", !.outcome = "timeout",
                              !.resolutions = @ + 1]
        ELSE calls[c]]

McpTickSteps == {Ms(60, 0), JANITOR_INTERVAL_MS, SESSION_TIMEOUT_MS}

\* this.cleanupInterval runs until shutdown calls clearInterval
cleanupIntervalSet_kept == TRUE

cleanupIntervalSet == shutdown = NoShutdown

\* d passes without a request.  The timers that come due on the way run:
\* the request timers of the sampling calls, and the janitor, whose last
\* run in the period is the one that finds the sessions oldest
McpTick(d) ==
    /\ ticks < MaxTicks
    /\ ticks' = ticks + 1
    /\ now' = Plus(now, d)
    /\ LET at == LastIntervalRun(now')
           ran == cleanupIntervalSet /\ IntervalRuns(now') >= 1 /\ Earlier(now, at)
           old == IF ran THEN cleanupOldSessions(at) ELSE {}
           \* calls whose deadline precedes the janitor's run time out first
           due == IF ran THEN ExpireCalls(samplingCalls, at) ELSE samplingCalls
       IN  /\ sessions' = [sid \in (DOMAIN sessions) \ old |-> sessions[sid]]
           /\ closedTransports' = closedTransports \cup old
           /\ samplingCalls' = ExpireCalls(CloseCalls(due, old, at), now')
    /\ UNCHANGED <<nextSession, mcpResp>>
    /\ UNCHANGED nonMcpVars

\* Requests of several callers on the sessions of the table
NextMcp ==
    \E req \in McpInputs : McpRequest(req)

\* One caller's requests as time passes and the janitor runs
JanitorInputs ==
    {[bearer |-> AliceBearer, sessionId |-> sid, method |-> m] :
        sid \in (DOMAIN sessions) \cup {NoSession, UnknownSession},
        m \in {"initialize", "tools/call", "DELETE"}}

NextJanitor ==
    \/ \E req \in JanitorInputs : McpRequest(req)
    \/ \E d \in McpTickSteps : McpTick(d)

(***************************************************************************)
(* verifyAccessToken as a function of the token and the wall clock: a      *)
(* client is handed a bearer, time passes, and it presents the bearer or   *)
(* an altered copy.                                                        *)
(***************************************************************************)
NoVerdict == [none |-> TRUE]
NoHeld == [none |-> TRUE]

\* createAccessToken as the token endpoint calls it
Mint ==
    /\ held = NoHeld
    /\ \E pair \in UpstreamPairs :
          held' = [mintedAt |-> now,
                   token |-> createAccessToken(UpstreamUser(pair.access_token),
                                               [accessToken |-> pair.access_token,
                                                refreshToken |-> pair.refresh_token],
                                               now)]
    /\ UNCHANGED <<now, ticks, verdict, oauthState, mcpVars, samplingVars, handlerVars>>

\* Copies of a bearer that do not match the server's configuration
SignedElsewhere(t) == [t EXCEPT !.sig = Hs256("other-secret", t.payload)]
OtherAudience(t) ==
    LET p == [t.payload EXCEPT !.aud = "other-resource"]
    IN  [payload |-> p, sig |-> Hs256(JWT_SECRET, p)]
OtherIssuer(t) ==
    LET p == [t.payload EXCEPT !.iss = "https://other.example"]
    IN  [payload |-> p, sig |-> Hs256(JWT_SECRET, p)]
\* the expiry pushed out, the signature kept
Tampered(t) ==
    [t EXCEPT !.payload.exp = t.payload.exp + TOKEN_LIFETIME_S]

Presentable(t) ==
    {[kind |-> "minted", token |-> t],
     [kind |-> "signature", token |-> SignedElsewhere(t)],
     [kind |-> "audience", token |-> OtherAudience(t)],
     [kind |-> "issuer", token |-> OtherIssuer(t)],
     [kind |-> "signature", token |-> Tampered(t)]}

Verify ==
    /\ held # NoHeld
    /\ \E p \in Presentable(held.token) :
          LET auth == verifyAccessToken(p.token, now)
          IN  verdict' = [kind |-> p.kind, at |-> now, result |-> auth,
                          status |-> AuthMiddlewareStatus(auth),
                          error |-> AuthMiddlewareError(auth)]
    /\ UNCHANGED <<now, ticks, held, oauthState, mcpVars, samplingVars, handlerVars>>

VerifyTickSteps ==
    {Ms(0, 999), Ms(1, 0), Ms(TOKEN_LIFETIME_S - 1, 0), Ms(TOKEN_LIFETIME_S + 1, 0)}

VerifyTick ==
    /\ ticks < MaxTicks
    /\ ticks' = ticks + 1
    /\ \E d \in VerifyTickSteps : now' = Plus(now, d)
    /\ UNCHANGED <<held, verdict, oauthState, mcpVars, samplingVars, handlerVars>>

VerifyInit ==
    /\ held = NoHeld
    /\ verdict = NoVerdict

NextVerify ==
    \/ Mint
    \/ Verify
    \/ VerifyTick

(***************************************************************************)
(* The OAuth provider after construction, and its requests.                *)
(***************************************************************************)
AuthorizeInputs ==
    {AuthorizeRequest(U_localhost, GoodChallenge)}

OAuthInit ==
    /\ now = StartMs
    /\ ticks = 0
    /\ nextId = 1
    /\ pendingAuthorizations = EmptyMap
    /\ authorizationCodes = EmptyMap
    /\ refreshTokens = EmptyMap
    /\ timers = {}
    /\ nAuthorize = 0
    /\ authorizeResp = NoResponse
    /\ registerResp = NoResponse
    /\ callbacks = [i \in 1..MaxCallbacks |-> IdleCallback]
    /\ tokenReqs = [i \in 1..MaxTokenReqs |-> IdleTokenReq]

Init == OAuthInit /\ McpInit /\ VerifyInit

\* One authorization flow end to end: one upstream callback, concurrent
\* token requests, the clock
Next ==
    \/ \E q \in AuthorizeInputs : Authorize(q)
    \/ PendingTimeout
    \/ \E q \in CallbackInputs : CallbackBegin(1, q)
    \/ CallbackExchanged(1)
    \/ CallbackUpstreamFailed(1)
    \/ CallbackIdentified(1)
    \/ \E i \in 1..MaxTokenReqs : \E q \in TokenInputs : TokenBegin(i, q)
    \/ \E i \in 1..MaxTokenReqs : TokenSigned(i)
    \/ Tick

vars == <<oauthVars, mcpVars, samplingVars, handlerVars, verifyVars>>

Spec == Init /\ [][Next]_vars

\* Concurrent upstream callbacks
NextCallbacks ==
    \/ \E q \in AuthorizeInputs : Authorize(q)
    \/ PendingTimeout
    \/ \E i \in 1..MaxCallbacks : \E q \in CallbackInputs : CallbackBegin(i, q)
    \/ \E i \in 1..MaxCallbacks : CallbackExchanged(i)
    \/ \E i \in 1..MaxCallbacks : CallbackUpstreamFailed(i)
    \/ \E i \in 1..MaxCallbacks : CallbackIdentified(i)
    \/ Tick

SpecCallbacks == Init /\ [][NextCallbacks]_vars

\* The redirect-URI policy at its two endpoints
RedirectInputs ==
    {AuthorizeRequest(u, GoodChallenge) : u \in RedirectUris}

NextRedirect ==
    \/ \E body \in RegisterInputs : Register(body)
    \/ \E q \in RedirectInputs : Authorize(q)

SpecRedirect == Init /\ [][NextRedirect]_vars

\* The /mcp endpoint
SpecMcp == Init /\ [][NextMcp]_vars

\* Sessions over time
SpecJanitor == Init /\ [][NextJanitor]_vars

\* Bearer verification over time
SpecVerify == Init /\ [][NextVerify]_vars

\* GET /oauth/authorize with each parameter of the query present or absent
CompleteAuthorizeRequest == AuthorizeRequest(U_localhost, GoodChallenge)

AuthorizeOmissions ==
    {[CompleteAuthorizeRequest EXCEPT !.client_id = Missing],
     [CompleteAuthorizeRequest EXCEPT !.redirect_uri = << >>],
     [CompleteAuthorizeRequest EXCEPT !.response_type = Missing],
     [CompleteAuthorizeRequest EXCEPT !.code_challenge = << >>],
     [CompleteAuthorizeRequest EXCEPT !.code_challenge_method = Missing],
     [CompleteAuthorizeRequest EXCEPT !.state = Missing]}

AuthorizeParamInputs == {CompleteAuthorizeRequest} \cup AuthorizeOmissions

NextAuthorize ==
    \/ \E q \in AuthorizeParamInputs : Authorize(q)
    \/ PendingTimeout
    \/ \E q \in CallbackInputs : CallbackBegin(1, q)
    \/ CallbackExchanged(1)
    \/ CallbackUpstreamFailed(1)
    \/ CallbackIdentified(1)
    \/ Tick

SpecAuthorize == Init /\ [][NextAuthorize]_vars

(***************************************************************************)
(* Server-initiated sampling: sendSamplingRequest awaits                   *)
(* server.createMessage(), which the client's reply, the request timer or  *)
(* the closing of the transport settles.                                   *)
(***************************************************************************)
MaxSamplingCalls == 2

\* createMessage is called without options: the request timer of the SDK
\* runs with its default of 60 seconds
REQUEST_TIMEOUT_MS == Ms(60, 0)

\* request.params._meta.callback: absent, the one CallbackSchema knows, and
\* one it does not know
NoCallback == ""
CallbackTags == {NoCallback, "suggest_action", "create_post_callback"}

\* result.content of the client's reply, and JSON.parse of its text
NoReply == [none |-> TRUE]
PlainText == [type |-> "text", text |-> "Hello"]
ReplyContents ==
    {[type |-> "text", text |-> "{\"action\":\"post\",\"reasoning\":\"r\"}"],
     [type |-> "text", text |-> "{\"action\":\"post\"}"],
     [type |-> "text", text |-> "{\"action\":\"\",\"reasoning\":\"r\"}"],
     [type |-> "text", text |-> "null"],
     PlainText,
     [type |-> "image", text |-> ""]}

JsonThrows == [threw |-> TRUE]
JsonUndefined == "#undefined"
JsonObject(action, reasoning) ==
    [threw |-> FALSE, isObject |-> TRUE, action |-> action, reasoning |-> reasoning]

\* a member the object does not have reads as undefined
JsonParse(text) ==
    CASE text = "{\"action\":\"post\",\"reasoning\":\"r\"}" -> JsonObject("post", "r")
      [] text = "{\"action\":\"post\"}" -> JsonObject("post", JsonUndefined)
      [] text = "{\"action\":\"\",\"reasoning\":\"r\"}" -> JsonObject("", "r")
      [] text = "null" -> [threw |-> FALSE, isObject |-> FALSE]
      [] OTHER -> JsonThrows

\* !value of a string or undefined
Falsy(v) == v = JsonUndefined \/ v = ""

SamplingCall(sessionId, callback, at) ==
    [sessionId |-> sessionId, pc |-> "pending", outcome |-> "",
     deadline |-> Plus(at, REQUEST_TIMEOUT_MS),
     callback |-> callback,
     \* result.content of the reply that settled the call
     reply |-> NoReply,
     \* what sendSamplingRequest returned to its caller
     returned |-> NoReply,
     \* how many times the promise of createMessage was settled
     resolutions |-> 0,
     \* how many times the code after the await ran
     continued |-> 0]

\* MCPHandler.getServerForSession(sessionId): the server is named by the id
\* of its session, NoSession stands for undefined
getServerForSession_any(sid) ==
    IF sid \in DOMAIN sessions THEN sid
    ELSE IF DOMAIN sessions # {} THEN CHOOSE s \in DOMAIN sessions : TRUE
    ELSE NoSession

getServerForSession(sid) == IF sid \in DOMAIN sessions THEN sid ELSE NoSession

\* sendSamplingRequest(request, { sessionId }) up to the await: the error it
\* throws, "" when createMessage was called and is awaited
SamplingError(sid) ==
    IF sid = NoSession THEN "Session ID is required for sampling requests"
    ELSE IF getServerForSession(sid) = NoSession THEN "Session not found"
    \* Protocol.request on a server without a transport
    ELSE IF getServerForSession(sid) \in closedTransports THEN "Not connected"
    ELSE ""

sendSamplingRequest(sid, callback) ==
    LET error == SamplingError(sid)
        server == getServerForSession(sid)
    IN  /\ samplingLast.n < MaxSamplingCalls
        /\ samplingLast' = [n |-> samplingLast.n + 1, sessionId |-> sid,
                            error |-> error]
        /\ IF error = ""
           THEN /\ samplingCalls' =
                      Append(samplingCalls, SamplingCall(server, callback, now))
                /\ outbox' = Append(outbox, [sessionId |-> server,
                                             method |-> "sampling/createMessage",
                                             call |-> Len(samplingCalls) + 1])
           ELSE UNCHANGED <<samplingCalls, outbox>>
        /\ UNCHANGED <<sessions, nextSession, mcpResp, closedTransports, now, ticks,
                       notified>>
        /\ UNCHANGED nonSamplingVars

SamplingBegin(sid) == sendSamplingRequest(sid, NoCallback)

\* sendNotification(notification, sessionId) with a session id: what the
\* session's server sends.  server.notification on a server without a
\* transport throws, which is caught and logged.
sendNotification_broadcast(method, sid, c) ==
    [i \in 1..Cardinality(DOMAIN sessions) |->
        [sessionId |-> CHOOSE s \in DOMAIN sessions :
                          Cardinality({x \in DOMAIN sessions : x < s}) = i - 1,
         method |-> method, call |-> c]]

\* getAllServers(): the servers of the table in the order of the Map, which
\* is the order in which the sessions were created
getAllServers ==
    [i \in 1..Cardinality(DOMAIN sessions) |->
        CHOOSE s \in DOMAIN sessions :
            Cardinality({x \in DOMAIN sessions : x < s}) = i - 1]

\* the first server that rejects ends the broadcast
NotifyEach_failFast(method, servers, c) ==
    [i \in 1..Cardinality({k \in DOMAIN servers :
                              \A j \in 1..k : servers[j] \notin closedTransports}) |->
        [sessionId |-> servers[i], method |-> method, call |-> c]]

\* server.notification on each server of the list; one that rejects is
\* caught and logged, and the others are not affected
NotifyEach(method, servers, c) ==
    [i \in 1..Len(SelectSeq(servers, LAMBDA s : s \notin closedTransports)) |->
        [sessionId |-> SelectSeq(servers, LAMBDA s : s \notin closedTransports)[i],
         method |-> method, call |-> c]]

\* sendNotification(notification, sessionId): with a session id, what that
\* session's server sends; without one, what the servers of all sessions send
sendNotification(method, sid, c) ==
    IF sid # NoSession
    THEN IF getServerForSession(sid) = NoSession
         THEN << >>
         ELSE NotifyEach(method, <<getServerForSession(sid)>>, c)
    ELSE NotifyEach(method, getAllServers, c)

\* handleSuggestActionCallback(result, sessionId): what it sends, and
\* whether it throws
handleSuggestActionCallback(content, sid, c) ==
    LET actionData == JsonParse(content.text)
    IN  IF content.type # "text" THEN [threw |-> TRUE, sent |-> << >>]
        ELSE IF actionData.threw THEN [threw |-> TRUE, sent |-> << >>]
        \* reading a property of null throws a TypeError
        ELSE IF ~actionData.isObject THEN [threw |-> TRUE, sent |-> << >>]
        ELSE IF Falsy(actionData.action) \/ Falsy(actionData.reasoning)
        THEN [threw |-> TRUE, sent |-> << >>]
        ELSE [threw |-> FALSE,
              sent |-> sendNotification("notifications/sampling/complete", sid, c)]

\* handleCallback(callback, result, sessionId)
handleCallback(callback, content, sid, c) ==
    LET started == sendNotification("notifications/message", sid, c)
        h == IF callback = "suggest_action"
             THEN handleSuggestActionCallback(content, sid, c)
             ELSE [threw |-> TRUE, sent |-> << >>]
    IN  IF h.threw
        THEN [threw |-> TRUE,
              sent |-> started \o h.sent
                          \o sendNotification("notifications/message", sid, c)]
        ELSE [threw |-> FALSE, sent |-> started \o h.sent]

\* CallbackSchema.parse(callback)
CallbackSchemaParses(callback) == callback \in {"suggest_action"}

\* The code of sendSamplingRequest after the await, given the client's
\* result: what is sent, and what is returned to the caller (NoReply when
\* the function throws instead)
AfterReply_uncaught(callback, content, sid, c) ==
    IF callback = NoCallback
    THEN [sent |-> << >>, returned |-> content]
    ELSE IF ~CallbackSchemaParses(callback)
    THEN [sent |-> << >>, returned |-> NoReply]
    ELSE LET h == handleCallback(callback, content, sid, c)
         IN  [sent |-> h.sent, returned |-> IF h.threw THEN NoReply ELSE content]

AfterReply(callback, content, sid, c) ==
    IF callback = NoCallback
    THEN [sent |-> << >>, returned |-> content]
    ELSE IF ~CallbackSchemaParses(callback)
    THEN \* the ZodError is caught and logged
         [sent |-> << >>, returned |-> content]
    ELSE \* what handleCallback throws is caught and logged
         [sent |-> handleCallback(callback, content, sid, c).sent,
          returned |-> content]

\* The client POSTs the JSON-RPC response of call c to /mcp with the id of
\* the call's session: handleRequest, then Protocol._onresponse, which
\* settles the call when its response handler is still registered and drops
\* the message when it is not.  The code after the await runs before any
\* other request or timer does.
ClientReply(c, content) ==
    LET call == samplingCalls[c]
        sid == call.sessionId
        after == AfterReply(call.callback, content, sid, c)
    IN  /\ IF sid \notin DOMAIN sessions
           THEN /\ mcpResp' = McpResponse(404, "Session not found", NoSession)
                /\ UNCHANGED <<sessions, samplingCalls, outbox>>
           ELSE /\ sessions' = MapSet(sessions, sid,
                                      UpdateAuth(Touch(sessions[sid], now),
                                                 SessionAuthOf(verifyAccessToken(AliceBearer, now))))
                /\ mcpResp' = McpResponse(202, "", sid)
                /\ IF call.pc = "pending" /\ sid \notin closedTransports
                   THEN /\ samplingCalls' =
                             [samplingCalls EXCEPT
                                ![c].pc = "resolved", ![c].outcome = "result",
                                ![c].reply = content,
                                ![c].returned = after.returned,
                                ![c].resolutions = @ + 1,
                                ![c].continued = @ + 1]
                        /\ outbox' = outbox \o after.sent
                   ELSE UNCHANGED <<samplingCalls, outbox>>
        /\ UNCHANGED <<nextSession, closedTransports, now, ticks, samplingLast,
                       notified>>
        /\ UNCHANGED nonSamplingVars

SamplingReply(c) == ClientReply(c, PlainText)

\* MCPHandler.cleanupSession(sessionId)
cleanupSession(sid) ==
    /\ IF sid \in DOMAIN sessions
       THEN /\ sessions' = MapDelete(sessions, sid)
            /\ closedTransports' = closedTransports \cup {sid}
            /\ samplingCalls' = CloseCalls(samplingCalls, {sid}, now)
       ELSE UNCHANGED <<sessions, closedTransports, samplingCalls>>
    /\ UNCHANGED <<nextSession, mcpResp, now, ticks>>
    /\ UNCHANGED nonMcpVars

\* One client opens its session and, later, ends it
SamplingInputs ==
    {[bearer |-> AliceBearer, sessionId |-> NoSession, method |-> "initialize"] :
        n \in {nextSession} \cap {0}}
    \cup {[bearer |-> AliceBearer, sessionId |-> sid, method |-> "DELETE"] :
             sid \in DOMAIN sessions}

\* the request timeout, and the longest a session can be idle with the
\* janitor due within half a minute
SamplingTickSteps ==
    {REQUEST_TIMEOUT_MS,
     Ms(SESSION_TIMEOUT_MS[1] + JANITOR_INTERVAL_MS[1] - 30, 0)}

NextSampling ==
    \/ \E req \in SamplingInputs : McpRequest(req)
    \/ \E sid \in (DOMAIN sessions) \cup {UnknownSession} : SamplingBegin(sid)
    \/ \E c \in DOMAIN samplingCalls : SamplingReply(c)
    \/ \E sid \in DOMAIN sessions : cleanupSession(sid)
    \/ \E d \in SamplingTickSteps : McpTick(d)

SpecSampling == Init /\ [][NextSampling]_vars

\* Sampling round trips with callbacks on the two sessions of a client; the
\* content of the reply matters to the suggest_action continuation only
RoundTripInputs ==
    {[bearer |-> AliceBearer, sessionId |-> NoSession, method |-> "initialize"] :
        n \in {nextSession} \cap {0, 1}}

RoundTripReplies(c) ==
    IF samplingCalls[c].callback = "suggest_action" THEN ReplyContents
    ELSE {PlainText}

NextRoundTrip ==
    \/ \E req \in RoundTripInputs : McpRequest(req)
    \/ \E sid \in (DOMAIN sessions) \cup {NoSession, UnknownSession},
          callback \in CallbackTags : sendSamplingRequest(sid, callback)
    \/ \E c \in DOMAIN samplingCalls : \E content \in RoundTripReplies(c) :
          ClientReply(c, content)

SpecRoundTrip == Init /\ [][NextRoundTrip]_vars

(***************************************************************************)
(* authMiddleware on whole requests: the method, the Accept header and the *)
(* Authorization header.                                                   *)
(***************************************************************************)
NoHeader == [none |-> TRUE]
RequestHost == "mcp.example"
PROTECTED_RESOURCE_PATH == "/.well-known/oauth-protected-resource"

\* `Bearer realm="MCP", resource_metadata="${baseUrl}/.well-known/oauth-protected-resource"`
\* with baseUrl = `https://${req.get("host")}`
WwwAuthenticate(host) ==
    [scheme |-> "Bearer", realm |-> "MCP",
     resource_metadata |-> <<"https://", host, PROTECTED_RESOURCE_PATH>>]

\* the Authorization header as the text before the token and the token
AuthSchemes == {"Bearer ", "bearer ", "Basic "}

AuthRequests(tokens) ==
    {[method |-> m, sse |-> a, authorization |-> h, kind |-> "none"] :
        m \in {"GET", "POST", "DELETE"}, a \in BOOLEAN, h \in {NoHeader}}
    \cup {[method |-> m, sse |-> a,
           authorization |-> [scheme |-> sc, token |-> p.token], kind |-> p.kind] :
             m \in {"GET", "POST", "DELETE"}, a \in BOOLEAN,
             sc \in AuthSchemes, p \in tokens}

\* req.method === "GET" && req.headers.accept?.includes("text/event-stream")
IsSseRequest(req) == req.method = "GET" /\ req.sse

\* res.writeHead(401, {Content-Type, Cache-Control, Connection}) and the
\* error event
SseUnauthorized(error) ==
    [next |-> FALSE, status |-> 401, error |-> error,
     contentType |-> "text/event-stream", wwwAuthenticate |-> NoHeader]

JsonUnauthorized(error, wwwAuthenticate) ==
    [next |-> FALSE, status |-> 401, error |-> error,
     contentType |-> "application/json", wwwAuthenticate |-> wwwAuthenticate]

authMiddleware(req, nowMs) ==
    IF req.authorization = NoHeader \/ req.authorization.scheme # "Bearer "
    THEN IF IsSseRequest(req)
         THEN SseUnauthorized("unauthorized")
         ELSE JsonUnauthorized("unauthorized", WwwAuthenticate(RequestHost))
    ELSE LET auth == verifyAccessToken(req.authorization.token, nowMs)
         IN  IF auth.ok
             THEN [next |-> TRUE, status |-> 0, error |-> "",
                   contentType |-> "", wwwAuthenticate |-> NoHeader]
             ELSE IF IsSseRequest(req)
             THEN SseUnauthorized("invalid_token")
             ELSE JsonUnauthorized("invalid_token", NoHeader)

\* a request to /mcp as far as authMiddleware
AuthRequest ==
    /\ \E req \in AuthRequests(IF held = NoHeld THEN {} ELSE Presentable(held.token)) :
          verdict' = [request |-> req, at |-> now,
                      response |-> authMiddleware(req, now)]
    /\ UNCHANGED <<now, ticks, held, oauthState, mcpVars, samplingVars, handlerVars>>

AuthTickSteps == {Ms(TOKEN_LIFETIME_S - 1, 0), Ms(2, 0)}

AuthTick ==
    /\ ticks < MaxTicks
    /\ ticks' = ticks + 1
    /\ \E d \in AuthTickSteps : now' = Plus(now, d)
    /\ UNCHANGED <<held, verdict, oauthState, mcpVars, samplingVars, handlerVars>>

NextAuthMiddleware ==
    \/ Mint
    \/ AuthRequest
    \/ AuthTick

SpecAuthMiddleware == Init /\ [][NextAuthMiddleware]_vars

(***************************************************************************)
(* The request handlers createServer registers on a session's server:      *)
(* tools/call, resources/read and prompts/get.                             *)
(***************************************************************************)
\* Bearers of users whose upstream grant came without an access token, and
\* without a refresh token (exchangeRedditCode returns the upstream JSON as
\* it is)
NoCredsBearer ==
    createAccessToken("carol", [accessToken |-> "", refreshToken |-> ""], StartMs)
NoRefreshBearer ==
    createAccessToken("dave", [accessToken |-> "A3", refreshToken |-> ""], StartMs)

\* JSON values of tool arguments: a string of a given length, a whole number,
\* or no member of that name
Absent == [type |-> "undefined", len |-> 0, num |-> 0]
Str(n) == [type |-> "string", len |-> n, num |-> 0]
Num(n) == [type |-> "number", len |-> 0, num |-> n]

NoArguments == [none |-> TRUE]
ToolArguments ==
    {[query |-> q, limit |-> l] :
        q \in {Absent, Str(0), Str(4), Str(501), Num(7)},
        l \in {Absent, Num(25), Num(0), Num(101), Str(2)}}

\* TOOLS, as far as modelled: two tools that call the upstream API
ToolNames == {"search_reddit", "get_notifications"}

\* inputSchema of the tool definitions
DeclaredSchemaAccepts(name, args) ==
    IF name = "search_reddit"
    THEN /\ args.query.type = "string"
         /\ \/ args.limit.type = "undefined"
            \/ args.limit.type = "number" /\ args.limit.num \in 1..100
    ELSE \/ args.limit.type = "undefined"
         \/ args.limit.type = "number"

\* ToolSchemas[name].parse(arguments)
ZodAccepts_any(name, args) == TRUE

ZodAccepts(name, args) ==
    LET limitOk == \/ args.limit.type = "undefined"
                   \/ args.limit.type = "number" /\ args.limit.num \in 1..100
    IN  IF name = "search_reddit"
        THEN /\ args.query.type = "string"
             /\ args.query.len \in 1..500
             /\ limitOk
        ELSE limitOk

\* what a handler did: the error it threw ("" when it returned a result),
\* the tool body that ran, the upstream API calls it made, the token values
\* it passed to the logger, and whether it returned rendered messages
Outcome(error, body, upstream, logged, rendered) ==
    [error |-> error, body |-> body, upstream |-> upstream,
     logged |-> logged, rendered |-> rendered]

Failure(error) == Outcome(error, "", 0, {}, FALSE)

\* authInfo.extra built from sessionAuth
AuthExtra(sessionAuth) ==
    [userId |-> sessionAuth.username,
     redditAccessToken |-> sessionAuth.accessToken,
     redditRefreshToken |-> sessionAuth.refreshToken]

\* RedditCredentialsSchema.parse(authInfo.extra)
CredentialsValid(extra) ==
    /\ extra.redditAccessToken # ""
    /\ extra.redditRefreshToken # ""
    /\ extra.userId # ""

\* handleToolCall(request, { sessionId, authInfo })
handleToolCall(params, extra) ==
    IF ~CredentialsValid(extra)
    THEN \* logger.error("Reddit credentials validation failed",
         \*              { errors, authInfo: authInfo.extra })
         Outcome("Authentication failed", "", 0,
                 {extra.redditAccessToken, extra.redditRefreshToken} \ {""}, FALSE)
    ELSE IF params.arguments = NoArguments
    THEN Failure("Arguments are required")
    ELSE IF params.name \notin ToolNames
    THEN Failure("Unknown tool")
    ELSE IF ~ZodAccepts(params.name, params.arguments)
    THEN Failure("Invalid arguments for tool")
    ELSE \* the tool body runs and calls the upstream API; its errors come
         \* back as a result with status "error"
         Outcome("", params.name, 1, {}, FALSE)

\* the CallToolRequestSchema handler: `if (!sessionAuth) throw ...`
RequireSessionAuth_skipped(sessionAuth) ==
    [sessionAuth |-> IF sessionAuth = NoAuth
                     THEN [accessToken |-> "", refreshToken |-> "", username |-> ""]
                     ELSE sessionAuth,
     error |-> ""]

RequireSessionAuth(sessionAuth) ==
    [sessionAuth |-> sessionAuth,
     error |-> IF sessionAuth = NoAuth
               THEN "Authentication required for tool calls" ELSE ""]

CallToolHandler(params, sessionAuth) ==
    LET r == RequireSessionAuth(sessionAuth)
    IN  IF r.error # "" THEN Failure(r.error)
        ELSE handleToolCall(params, AuthExtra(r.sessionAuth))

\* handleResourceCall(request, extra): RESOURCES, as far as modelled
ResourceUris == {"reddit://config", "guidelines://reddit-api", "unknown://x"}

handleResourceCall(params, sessionAuth) ==
    IF params.uri = "reddit://config"
    THEN IF sessionAuth = NoAuth \/ AuthExtra(sessionAuth).redditAccessToken = ""
         THEN \* AUTHENTICATION_REQUIRED, wrapped by the catch in FETCH_FAILED
              Failure("Failed to fetch resource: Authentication required: Reddit access token not found")
         ELSE Outcome("", "getRedditConfig", 1, {}, FALSE)
    ELSE IF params.uri = "guidelines://reddit-api"
    THEN Outcome("", "", 0, {}, FALSE)
    ELSE Failure("Failed to fetch resource: Invalid resource URI")

\* PROMPTS and the arguments they declare as required
PromptNames == {"reddit_suggest_action", "code_generation_example"}
PromptRequired(name) ==
    IF name = "reddit_suggest_action" THEN {"recentPosts"} ELSE {}

\* handleGetPrompt(request)
handleGetPrompt(params) ==
    IF params.name \notin PromptNames
    THEN Failure("Prompt not found")
    ELSE Outcome("", "", 0, {}, TRUE)

HandlerParams ==
    {[method |-> "tools/call", name |-> n, arguments |-> a, uri |-> "", given |-> {}] :
        n \in ToolNames \cup {"invalid_tool_name"},
        a \in ToolArguments \cup {NoArguments}}
    \cup {[method |-> "resources/read", name |-> "", arguments |-> NoArguments,
           uri |-> u, given |-> {}] : u \in ResourceUris}
    \cup {[method |-> "prompts/get", name |-> n, arguments |-> NoArguments,
           uri |-> "", given |-> g] :
              n \in PromptNames \cup {"invalid_prompt_name"},
              g \in {{}, {"recentPosts"}}}

HandlerOutcome(params, sessionAuth) ==
    IF params.method = "tools/call" THEN CallToolHandler(params, sessionAuth)
    ELSE IF params.method = "resources/read"
    THEN handleResourceCall(params, sessionAuth)
    ELSE handleGetPrompt(params)

\* A JSON-RPC request of the client that opened the session, on a session
\* that is initialized and open: handleRequest, then the handler of the
\* session's server, whose error or result is the JSON-RPC answer
ServerRequest(sid, bearer, params) ==
    LET auth == verifyAccessToken(bearer, now)
        info == UpdateAuth(Touch(sessions[sid], now), SessionAuthOf(auth))
        outcome == HandlerOutcome(params, info.serverAuth)
    IN  /\ sid \in DOMAIN sessions
        /\ sid \notin closedTransports
        /\ sessions[sid].initialized
        /\ auth.ok
        /\ SessionAuthOf(auth) = sessions[sid].auth
        /\ sessions' = MapSet(sessions, sid, info)
        /\ mcpResp' = McpResponse(200, outcome.error, sid)
        /\ rpc' = [sessionId |-> sid, params |-> params,
                   sessionAuth |-> info.serverAuth, bearer |-> bearer,
                   outcome |-> outcome]
        /\ UNCHANGED <<nextSession, closedTransports, samplingCalls, now, ticks>>
        /\ UNCHANGED <<oauthState, samplingVars, verifyVars, fetch, shutdown>>

HandlerBearers == {AliceBearer, NoCredsBearer, NoRefreshBearer}

\* one client opens its session
HandlerInputs ==
    {[bearer |-> b, sessionId |-> NoSession, method |-> "initialize"] :
        b \in {c \in HandlerBearers : nextSession = 0}}

NextHandlers ==
    \/ \E req \in HandlerInputs : McpRequest(req)
    \/ \E sid \in DOMAIN sessions, b \in HandlerBearers, params \in HandlerParams :
          ServerRequest(sid, b, params)

SpecHandlers == Init /\ [][NextHandlers]_vars

(***************************************************************************)
(* The middleware stack of /mcp: authMiddleware, rateLimitMiddleware,      *)
(* validateProtocolVersion, requestSizeLimit, then handleRequest.  A       *)
(* middleware that answers does not call next().  The three that follow    *)
(* authMiddleware are imported from middleware.js and behave as the        *)
(* MiddlewareChain of the design describes them.                           *)
(***************************************************************************)
RATE_LIMIT_MAX == 100
MAX_REQUEST_BYTES == 10 * 1024 * 1024
PROTOCOL_VERSION == "2025-06-18"

\* The fixed-window counter of the caller's address, this request counted
rateLimitMiddleware(req) ==
    IF req.windowCount > RATE_LIMIT_MAX THEN 429 ELSE 0

\* A version header that is present has to name the server's version
validateProtocolVersion(req) ==
    IF req.version # Missing /\ req.version # PROTOCOL_VERSION THEN 400 ELSE 0

requestSizeLimit(req) ==
    IF req.bytes > MAX_REQUEST_BYTES THEN 413 ELSE 0

\* The status of the first middleware that answers, 0 when all call next()
mcpMiddleware(req, nowMs) ==
    LET auth == verifyAccessToken(req.bearer, nowMs)
    IN  IF AuthMiddlewareStatus(auth) # 0 THEN AuthMiddlewareStatus(auth)
        ELSE IF rateLimitMiddleware(req) # 0 THEN rateLimitMiddleware(req)
        ELSE IF validateProtocolVersion(req) # 0 THEN validateProtocolVersion(req)
        ELSE requestSizeLimit(req)

MiddlewareError(status) ==
    IF status = 429 THEN "rate_limited"
    ELSE IF status = 400 THEN "Unsupported protocol version"
    ELSE "Request entity too large"

\* app.all("/mcp", ...mcpMiddleware, handleRequest)
ChainRequest(req) ==
    LET status == mcpMiddleware(req, now)
    IN  IF status \in {429, 400, 413}
        THEN /\ mcpResp' = McpResponse(status, MiddlewareError(status), NoSession)
             /\ UNCHANGED <<sessions, nextSession, closedTransports, samplingCalls,
                            now, ticks>>
             /\ UNCHANGED nonMcpVars
        ELSE McpRequest([bearer |-> req.bearer, sessionId |-> req.sessionId,
                         method |-> req.method])

ChainInputs ==
    {[bearer |-> b, sessionId |-> sid, method |-> m, windowCount |-> n,
      version |-> v, bytes |-> z] :
        b \in {AliceBearer, ForgedBearer},
        sid \in (DOMAIN sessions) \cup {NoSession},
        m \in {"initialize", "tools/call"},
        n \in {RATE_LIMIT_MAX, RATE_LIMIT_MAX + 1},
        v \in {Missing, PROTOCOL_VERSION, "2024-11-05"},
        z \in {MAX_REQUEST_BYTES, MAX_REQUEST_BYTES + 1}}

ChainTickSteps == {Ms(60, 0)}

NextChain ==
    \/ \E req \in ChainInputs : ChainRequest(req)
    \/ \E d \in ChainTickSteps : McpTick(d)

SpecChain == Init /\ [][NextChain]_vars

(***************************************************************************)
(* One user's sessions and the bearers that user holds: one minted before  *)
(* the upstream grant existed, one with the grant's first token pair, one  *)
(* minted later with a newer pair.                                         *)
(***************************************************************************)
FresherBearer ==
    createAccessToken("alice", [accessToken |-> "A4", refreshToken |-> "R4"], StartMs)

RebindBearers == {NoCredsBearer, AliceBearer, FresherBearer}

RebindInputs ==
    {[bearer |-> b, sessionId |-> sid, method |-> m] :
        b \in RebindBearers,
        sid \in (DOMAIN sessions) \cup {NoSession},
        m \in {"initialize", "tools/call"}}

NextRebind ==
    \E req \in RebindInputs : McpRequest(req)

SpecRebind == Init /\ [][NextRebind]_vars

(***************************************************************************)
(* The authorization flow as the event loop runs it: a timer that is due   *)
(* runs before the handler of a request that arrives after it.            *)
(***************************************************************************)
NoTimerDue == \A t \in timers : Earlier(now, t.at)

NextTimers ==
    \/ PendingTimeout
    \/ NoTimerDue /\ \E q \in AuthorizeInputs : Authorize(q)
    \/ NoTimerDue /\ \E q \in CallbackInputs : CallbackBegin(1, q)
    \/ NoTimerDue /\ CallbackExchanged(1)
    \/ NoTimerDue /\ CallbackUpstreamFailed(1)
    \/ NoTimerDue /\ CallbackIdentified(1)
    \/ NoTimerDue /\ \E i \in 1..MaxTokenReqs : \E q \in TokenInputs : TokenBegin(i, q)
    \/ NoTimerDue /\ \E i \in 1..MaxTokenReqs : TokenSigned(i)
    \/ Tick

SpecTimers == Init /\ [][NextTimers]_vars

(***************************************************************************)
(* RedditFetchService.redditFetch(endpoint, options, isRetry = false) and  *)
(* the RedditAuthService it asks for the Authorization header.  One call   *)
(* from outside and the calls it makes of itself; the upstream answers    *)
(* each request with a status of its choosing.                             *)
(***************************************************************************)
MaxFetchCount == 4

\* counters of what the call has done so far; they stop at MaxFetchCount
Counted(n) == IF n < MaxFetchCount THEN n + 1 ELSE n

UpstreamStatuses == {200, 401, 429, 500}

\* getAuthHeaders -> getAccessToken: refreshAccessToken when there is no
\* token or the token has expired; then the rate-limit delay and the request
getAuthHeaders(f, refreshOk) ==
    IF f.tokenValid
    THEN [f EXCEPT !.pc = "request", !.requests = Counted(f.requests)]
    ELSE IF refreshOk
    THEN [f EXCEPT !.pc = "request", !.tokenValid = TRUE,
                   !.refreshes = Counted(f.refreshes),
                   !.requests = Counted(f.requests)]
    ELSE [f EXCEPT !.pc = "done", !.refreshes = Counted(f.refreshes),
                   !.outcome = "RedditError AUTH_ERROR"]

\* `return this.redditFetch<T>(endpoint, options)`: isRetry takes its default
RetryAfter429(f) == getAuthHeaders([f EXCEPT !.isRetry = FALSE], TRUE)

\* A service calls redditFetch(endpoint, options)
FetchBegin ==
    /\ fetch.pc = "idle"
    /\ \E tokenValid \in BOOLEAN, refreshOk \in BOOLEAN :
          fetch' = getAuthHeaders([IdleFetch EXCEPT !.tokenValid = tokenValid],
                                  refreshOk)
    /\ UNCHANGED <<oauthVars, mcpVars, samplingVars, rpc, shutdown, verifyVars>>

\* The upstream answers the request that is out
FetchResponse(status, refreshOk) ==
    /\ fetch.pc = "request"
    /\ LET f == [fetch EXCEPT !.status = status]
       IN  fetch' =
              IF status = 200
              THEN [f EXCEPT !.pc = "done", !.outcome = "json"]
              ELSE IF status = 401 /\ ~f.isRetry
              THEN \* refreshAccessToken, then redditFetch(endpoint, options, true)
                   IF refreshOk
                   THEN getAuthHeaders([f EXCEPT !.isRetry = TRUE,
                                                 !.tokenValid = TRUE,
                                                 !.refreshes = Counted(f.refreshes),
                                                 !.retries = Counted(f.retries)],
                                       TRUE)
                   ELSE [f EXCEPT !.pc = "done",
                                  !.refreshes = Counted(f.refreshes),
                                  !.outcome = "RedditError AUTH_ERROR"]
              ELSE IF status = 429
              THEN \* wait Retry-After seconds, then redditFetch(endpoint, options)
                   RetryAfter429(f)
              ELSE [f EXCEPT !.pc = "done", !.outcome = "RedditError API_ERROR"]
    /\ UNCHANGED <<oauthVars, mcpVars, samplingVars, rpc, shutdown, verifyVars>>

NextFetch ==
    \/ FetchBegin
    \/ \E status \in UpstreamStatuses, refreshOk \in BOOLEAN :
          FetchResponse(status, refreshOk)

SpecFetch == Init /\ [][NextFetch]_vars

\* The upstream answers every request
SpecFetchAnswered == SpecFetch /\ WF_vars(NextFetch)

(***************************************************************************)
(* Notifications from the handlers: sendSamplingCompleteNotification and   *)
(* sendProgressNotification name a session, sendRedditConfigNotification   *)
(* names none.  Sessions come and go meanwhile; a client ends its session  *)
(* by DELETE, which closes the transport and leaves the session in the     *)
(* table.                                                                  *)
(***************************************************************************)
MaxNotifications == 2

NotificationMethods == {"notifications/progress", "server/config/changed"}

\* One call of sendNotification from a handler; it returns normally whatever
\* becomes of the notification
Notify(method, sid) ==
    /\ notified.n < MaxNotifications
    /\ notified' = [n |-> notified.n + 1, method |-> method, sessionId |-> sid]
    /\ outbox' = outbox \o sendNotification(method, sid, 0)
    /\ UNCHANGED <<oauthVars, mcpVars, samplingLast, handlerVars, verifyVars>>

NotifyInputs ==
    {[bearer |-> AliceBearer, sessionId |-> sid, method |-> m] :
        sid \in (DOMAIN sessions) \cup {NoSession},
        m \in {"initialize", "DELETE"}}

NextNotify ==
    \/ \E req \in NotifyInputs : McpRequest(req)
    \/ \E sid \in DOMAIN sessions : cleanupSession(sid)
    \/ \E sid \in (DOMAIN sessions) \cup {NoSession, UnknownSession},
          method \in NotificationMethods : Notify(method, sid)

SpecNotify == Init /\ [][NextNotify]_vars

(***************************************************************************)
(* MCPHandler.shutdown.  The routes of the Express app stay, so requests   *)
(* can still arrive afterwards.                                            *)
(***************************************************************************)
Shutdown ==
    /\ shutdown = NoShutdown
    /\ shutdown' = [at |-> now, closed |-> DOMAIN sessions]
    /\ sessions' = EmptyMap
    /\ closedTransports' = closedTransports \cup DOMAIN sessions
    /\ samplingCalls' = CloseCalls(samplingCalls, DOMAIN sessions, now)
    /\ UNCHANGED <<nextSession, mcpResp, now, ticks>>
    /\ UNCHANGED <<oauthState, samplingVars, rpc, fetch, verifyVars>>

ShutdownInputs ==
    {[bearer |-> AliceBearer, sessionId |-> sid, method |-> m] :
        sid \in (1..nextSession) \cup {NoSession},
        m \in {"initialize", "tools/call"}}

ShutdownTickSteps == {JANITOR_INTERVAL_MS, SESSION_TIMEOUT_MS}

NextShutdown ==
    \/ \E req \in ShutdownInputs : McpRequest(req)
    \/ \E d \in ShutdownTickSteps : McpTick(d)
    \/ Shutdown

SpecShutdown == Init /\ [][NextShutdown]_vars

(***************************************************************************)
(* POST /oauth/token with the code of a finished authorization, presented  *)
(* with the redirect URI and client id of the authorization or with        *)
(* others.                                                                 *)
(***************************************************************************)
OtherClient == "another-client"

BindingInputs ==
    {[grant_type |-> "authorization_code", code |-> c, code_verifier |-> v,
      redirect_uri |-> u, client_id |-> k, refresh_token |-> BogusId] :
        c \in IssuedCodes, v \in Verifiers,
        u \in {U_localhost, U_https}, k \in {PUBLIC_CLIENT, OtherClient}}

NextBinding ==
    \/ \E q \in AuthorizeInputs : Authorize(q)
    \/ \E q \in CallbackInputs : CallbackBegin(1, q)
    \/ CallbackExchanged(1)
    \/ CallbackIdentified(1)
    \/ \E i \in 1..MaxTokenReqs : \E q \in BindingInputs : TokenBegin(i, q)
    \/ \E i \in 1..MaxTokenReqs : TokenSigned(i)

SpecBinding == Init /\ [][NextBinding]_vars


(***************************************************************************)
(* Properties.                                                             *)
(***************************************************************************)
TokenSlots == DOMAIN tokenReqs
CallbackSlots == DOMAIN callbacks

Redeemed(i) ==
    /\ tokenReqs[i].pc = "done"
    /\ tokenReqs[i].grant_type = "authorization_code"
    /\ tokenReqs[i].status = 200
    /\ tokenReqs[i].access_token # NoBearer
    /\ tokenReqs[i].refresh_token_out # BogusId

\* C1: of the token requests that present the same authorization code with
\* the same, correct code_verifier, at most one is answered with a bearer
\* and a refresh token, and every other one fails with invalid_grant.
C1_SingleRedemption ==
    \A i \in TokenSlots : \A j \in TokenSlots \ {i} :
        ( /\ Redeemed(i)
          /\ tokenReqs[j].pc = "done"
          /\ tokenReqs[j].grant_type = "authorization_code"
          /\ tokenReqs[j].code = tokenReqs[i].code
          /\ tokenReqs[j].code_verifier = tokenReqs[i].code_verifier )
        => /\ tokenReqs[j].status = 400
           /\ tokenReqs[j].error = "invalid_grant"

\* C2: a token request that arrives after a redemption of its code has
\* completed successfully fails with invalid_grant, whatever its
\* code_verifier.
C2_ReplayFails ==
    \A i \in TokenSlots :
        tokenReqs[i].afterSuccess
        => /\ tokenReqs[i].pc = "done"
           /\ tokenReqs[i].status = 400
           /\ tokenReqs[i].error = "invalid_grant"
           /\ tokenReqs[i].access_token = NoBearer

C2_Witness ==
    \E i \in TokenSlots :
        /\ tokenReqs[i].afterSuccess
        /\ tokenReqs[i].pc = "done"
        /\ tokenReqs[i].code_verifier = V_rfc

\* C3: after a token request failed the PKCE check on a code (400
\* invalid_grant, "Invalid code verifier"), a following token request with
\* that code also fails with invalid_grant.
C3_PkceFailureConsumes ==
    \A j \in TokenSlots : \A i \in TokenSlots :
        ( /\ j < i
          /\ tokenReqs[j].error_description = "Invalid code verifier"
          /\ tokenReqs[i].pc # "idle"
          /\ tokenReqs[i].grant_type = "authorization_code"
          /\ tokenReqs[i].code = tokenReqs[j].code )
        => /\ tokenReqs[j].status = 400
           /\ tokenReqs[j].error = "invalid_grant"
           /\ tokenReqs[i].pc = "done"
           /\ tokenReqs[i].error = "invalid_grant"

\* C4: no pending authorization yields more than one AuthorizationCode: of
\* the callbacks that carry the same state, at most one is answered with
\* the redirect to the caller.
C4_SingleConsumption ==
    \A i \in CallbackSlots : \A j \in CallbackSlots \ {i} :
        ~ ( /\ callbacks[i].status = 302
            /\ callbacks[j].status = 302
            /\ callbacks[i].state = callbacks[j].state )

\* C5: a tool call or resource read runs with the upstream credentials of
\* the bearer that its own request carried.
C5_SessionIsolation ==
    mcpResp.execution # NoExecution
    => /\ mcpResp.execution.accessToken = mcpResp.execution.callerAccessToken
       /\ mcpResp.execution.username = mcpResp.execution.caller

\* C6: a token request that presents an existing, unexpired authorization
\* code goes on to be answered with a bearer if and only if
\* base64url-nopad(sha256(code_verifier)) equals the code's stored challenge;
\* otherwise it is answered 400 invalid_grant.
C6_PkceStep(i) ==
    LET code == tokenReqs'[i].code
    IN  ( /\ tokenReqs[i].pc = "idle"
          /\ tokenReqs'[i].pc # "idle"
          /\ tokenReqs'[i].grant_type = "authorization_code"
          /\ code \in DOMAIN authorizationCodes
          /\ ~Earlier(authorizationCodes[code].expiresAt, now) )
        => IF Base64UrlNoPad(Sha256(tokenReqs'[i].code_verifier))
                = authorizationCodes[code].codeChallenge
           THEN /\ tokenReqs'[i].pc = "signing"
                /\ tokenReqs'[i].access_token # NoBearer
           ELSE /\ tokenReqs'[i].pc = "done"
                /\ tokenReqs'[i].status = 400
                /\ tokenReqs'[i].error = "invalid_grant"
                /\ tokenReqs'[i].access_token = NoBearer

C6_IssueStep(i) ==
    (tokenReqs[i].pc = "signing" /\ tokenReqs'[i].pc # "signing")
    => /\ tokenReqs'[i].pc = "done"
       /\ tokenReqs'[i].status = 200
       /\ tokenReqs'[i].access_token = tokenReqs[i].access_token

C6_PkceIff ==
    [][\A i \in TokenSlots : C6_PkceStep(i) /\ C6_IssueStep(i)]_vars

C6_Witness ==
    \E i \in TokenSlots : \E j \in TokenSlots :
        /\ Redeemed(i)
        /\ tokenReqs[j].error_description = "Invalid code verifier"
        /\ tokenReqs[j].code = tokenReqs[i].code

\* C7: a bearer minted at time t is accepted at every time up to
\* t + 86399 s and rejected at every time from t + 86401 s on; a bearer whose
\* signature, audience or issuer does not match the configuration is
\* rejected at every time.
C7_BearerLifetime ==
    verdict # NoVerdict
    => /\ ( /\ verdict.kind = "minted"
            /\ ~Earlier(Plus(held.mintedAt, Ms(86399, 0)), verdict.at) )
          => /\ verdict.result.ok
             /\ verdict.result.expiresAt = Epoch(held.mintedAt) + 86400
       /\ ( /\ verdict.kind = "minted"
            /\ ~Earlier(verdict.at, Plus(held.mintedAt, Ms(86401, 0))) )
          => /\ verdict.result = InvalidToken
             /\ verdict.status = 401
             /\ verdict.error = "invalid_token"
       /\ verdict.kind # "minted"
          => /\ verdict.result = InvalidToken
             /\ verdict.status = 401
             /\ verdict.error = "invalid_token"

C7_Witness ==
    /\ verdict # NoVerdict
    /\ verdict.kind = "minted"
    /\ verdict.at = Plus(held.mintedAt, Ms(86399, 0))
    /\ verdict.result.ok

\* C8: the bearer that the authorization_code grant returns for a code
\* verifies, while it has not expired, to the user id and the upstream token
\* pair that the upstream callback obtained for that code.
C8_RoundTrip ==
    \A i \in TokenSlots : \A c \in CallbackSlots :
        ( /\ Redeemed(i)
          /\ callbacks[c].status = 302
          /\ callbacks[c].location[2] = tokenReqs[i].code )
        => LET bearer == tokenReqs[i].access_token
               v == verifyAccessToken(bearer, now)
               upstream == callbacks[c].redditTokens
           IN  /\ (Epoch(now) < bearer.payload.exp) => v.ok
               /\ v.ok => /\ v.userId = UpstreamUser(upstream.access_token)
                          /\ v.redditAccessToken = upstream.access_token
                          /\ v.redditRefreshToken = upstream.refresh_token

C8_Witness ==
    \E i \in TokenSlots : \E c \in CallbackSlots :
        /\ Redeemed(i)
        /\ callbacks[c].status = 302
        /\ callbacks[c].location[2] = tokenReqs[i].code
        /\ verifyAccessToken(tokenReqs[i].access_token, now).ok

\* C9: a refresh_token grant that presents an existing, unexpired refresh
\* token returns a new bearer whose subject and upstream-token claims are
\* those of the stored record; one that presents an absent or expired
\* refresh token fails with invalid_grant and mints no bearer.
C9_BeginStep(i) ==
    LET rt == tokenReqs'[i].refresh_token
    IN  ( /\ tokenReqs[i].pc = "idle"
          /\ tokenReqs'[i].pc # "idle"
          /\ tokenReqs'[i].grant_type = "refresh_token"
          /\ rt # Undefined )
        => IF rt \in DOMAIN refreshTokens
              /\ ~Earlier(refreshTokens[rt].expiresAt, now)
           THEN /\ tokenReqs'[i].pc = "signing"
                /\ tokenReqs'[i].access_token.payload.sub = refreshTokens[rt].userId
                /\ tokenReqs'[i].access_token.payload.reddit_access_token
                      = refreshTokens[rt].redditTokens.accessToken
                /\ tokenReqs'[i].access_token.payload.reddit_refresh_token
                      = refreshTokens[rt].redditTokens.refreshToken
                /\ tokenReqs'[i].access_token.payload.iat = Epoch(now)
                /\ verifyAccessToken(tokenReqs'[i].access_token, now).ok
           ELSE /\ tokenReqs'[i].pc = "done"
                /\ tokenReqs'[i].status = 400
                /\ tokenReqs'[i].error = "invalid_grant"
                /\ tokenReqs'[i].access_token = NoBearer

C9_EndStep(i) ==
    ( /\ tokenReqs[i].pc = "signing"
      /\ tokenReqs[i].grant_type = "refresh_token"
      /\ tokenReqs'[i].pc # "signing" )
    => /\ tokenReqs'[i].pc = "done"
       /\ tokenReqs'[i].status = 200
       /\ tokenReqs'[i].access_token = tokenReqs[i].access_token

C9_RefreshGrant ==
    [][\A i \in TokenSlots : C9_BeginStep(i) /\ C9_EndStep(i)]_vars

C9_Witness ==
    \E i \in TokenSlots :
        /\ tokenReqs[i].pc = "done"
        /\ tokenReqs[i].grant_type = "refresh_token"
        /\ tokenReqs[i].status = 200
        /\ tokenReqs[i].access_token # NoBearer

\* C10: http://example.com/cb is rejected at both endpoints: registration
\* never returns it among the client's redirect URIs, and authorize stores no
\* pending row for it and does not redirect to the upstream.
C10_HttpOtherHostRejected ==
    /\ registerResp.status = 200 => U_httpOther \notin Range(registerResp.redirect_uris)
    /\ \A k \in DOMAIN pendingAuthorizations :
          pendingAuthorizations[k].redirectUri # U_httpOther


\* C11: a GET /oauth/authorize request that omits client_id, redirect_uri,
\* response_type, code_challenge, code_challenge_method or state is answered
\* with an error, stores no pending row and does not redirect to the upstream.
C11_MissingParameterRejected ==
    [][\A q \in AuthorizeOmissions :
          Authorize(q) =>
             /\ authorizeResp'.status = 400
             /\ authorizeResp'.error # ""
             /\ pendingAuthorizations' = pendingAuthorizations]_vars

\* C12: a callback that arrives with a code and a state whose key names no
\* pending row, or a row with another nonce, is answered at once with 400
\* invalid_request: no upstream exchange, no authorization code, no redirect.
C12_BadState(i) ==
    LET st == callbacks'[i].state
    IN  /\ callbacks[i].pc = "idle" /\ callbacks'[i].pc # "idle"
        /\ callbacks'[i].err = Missing
        /\ callbacks'[i].code # Missing
        /\ st # << >>
        /\ \/ st[1] \notin DOMAIN pendingAuthorizations
           \/ Len(st) < 2
           \/ pendingAuthorizations[st[1]].redditState # st[2]

C12_BadStateRejected ==
    [][\A i \in CallbackSlots :
          C12_BadState(i) =>
             /\ callbacks'[i].pc = "done"
             /\ callbacks'[i].status = 400
             /\ callbacks'[i].error = "invalid_request"
             /\ callbacks'[i].location = << >>
             /\ callbacks'[i].redditTokens = NoTokens
             /\ authorizationCodes' = authorizationCodes]_vars

\* a callback was refused although its key names a pending row: the nonce
\* differed
C12_Witness ==
    \E i \in CallbackSlots :
        /\ callbacks[i].pc = "done"
        /\ callbacks[i].error = "invalid_request"
        /\ callbacks[i].code # Missing
        /\ callbacks[i].state # << >>
        /\ callbacks[i].state[1] \in DOMAIN pendingAuthorizations
        /\ callbacks[i].redditTokens = NoTokens


\* /mcp requests that authMiddleware lets through
Authenticated(req) == verifyAccessToken(req.bearer, now).ok

\* C13: an authenticated /mcp request that carries the id of a session of
\* the table is handled by that session's transport and sets the session's
\* lastAccessed to the time of the request; it creates no session.
C13_StickySession ==
    [][\A req \in JanitorInputs :
          (McpRequest(req) /\ Authenticated(req) /\ req.sessionId \in DOMAIN sessions) =>
             /\ mcpResp'.sessionId = req.sessionId
             /\ mcpResp'.status # 404
             /\ DOMAIN sessions' = DOMAIN sessions
             /\ nextSession' = nextSession
             /\ sessions'[req.sessionId].lastAccessed = now
             /\ \A sid \in (DOMAIN sessions) \ {req.sessionId} :
                   sessions'[sid] = sessions[sid]]_vars

\* a tool call ran on a session some time after the server started
C13_Witness ==
    /\ mcpResp.execution # NoExecution
    /\ mcpResp.sessionId \in DOMAIN sessions
    /\ sessions[mcpResp.sessionId].lastAccessed = now
    /\ ticks > 0
    /\ Cardinality(DOMAIN sessions) = 1
    /\ nextSession = 1

\* C14: an authenticated /mcp request that carries a session id the table
\* does not hold is answered 404 "Session not found" and changes nothing in
\* the table.
C14_UnknownSession ==
    [][\A req \in McpInputs :
          (McpRequest(req) /\ Authenticated(req)
             /\ req.sessionId # NoSession /\ req.sessionId \notin DOMAIN sessions) =>
             /\ mcpResp'.status = 404
             /\ mcpResp'.error = "Session not found"
             /\ sessions' = sessions
             /\ nextSession' = nextSession]_vars

C14_Witness ==
    /\ mcpResp.status = 404
    /\ mcpResp.error = "Session not found"
    /\ DOMAIN sessions # {}

\* C15: a session whose lastAccessed is more than 60 minutes in the past
\* serves no request: a request that carries its id is answered 404, and its
\* transport is closed.
C15_ExpiredServesNothing ==
    [][\A req \in JanitorInputs :
          (McpRequest(req) /\ Authenticated(req)
             /\ req.sessionId \in DOMAIN sessions
             /\ Earlier(Plus(sessions[req.sessionId].lastAccessed, SESSION_TIMEOUT_MS),
                        now)) =>
             /\ mcpResp'.status = 404
             /\ req.sessionId \in closedTransports']_vars

\* C16: a session that gets no request is evicted at the janitor's first run
\* that finds it older than 60 minutes, which comes within 5 minutes of that
\* age: no session of the table is 65 minutes old, the transport of every
\* session that left the table is closed, and afterwards a request with such
\* an id is answered 404 while a request with no id gets a session with a
\* new id.
Evicted == {sid \in 1..nextSession : sid \notin DOMAIN sessions}

C16_InTableIsRecent ==
    /\ \A sid \in DOMAIN sessions :
          Earlier(now, Plus(Plus(sessions[sid].lastAccessed, SESSION_TIMEOUT_MS),
                            JANITOR_INTERVAL_MS))
    /\ Evicted \subseteq closedTransports

C16_AfterEviction ==
    \A req \in JanitorInputs :
       (McpRequest(req) /\ Authenticated(req)) =>
          /\ req.sessionId \in Evicted =>
                mcpResp'.status = 404 /\ sessions' = sessions
          /\ req.sessionId = NoSession =>
                /\ mcpResp'.sessionId \notin Evicted
                /\ mcpResp'.sessionId \notin DOMAIN sessions
                /\ mcpResp'.sessionId \in DOMAIN sessions'

C17_CredentialsKept ==
    [][\A sid \in (DOMAIN sessions) \cap (DOMAIN sessions') :
          sessions[sid].auth # NoAuth => sessions'[sid].auth # NoAuth]_vars

\* a session with credentials has served a later request of another caller
C17_Witness ==
    \E sid \in DOMAIN sessions :
        /\ sessions[sid].auth # NoAuth
        /\ mcpResp.sessionId = sid
        /\ mcpResp.execution # NoExecution
        /\ mcpResp.execution.caller # sessions[sid].auth.username

\* C19: once the client has ended session S1 (HTTP DELETE, which closes the
\* transport), every request that carries S1's id is answered 404.
C19_ClosedSessionNotFound ==
    [][\A req \in McpInputs :
          (McpRequest(req) /\ Authenticated(req)
             /\ req.sessionId \in closedTransports) =>
             mcpResp'.status = 404]_vars


\* C18: when the transport of a session closes while sampling calls of the
\* session are pending, each of them is settled with ConnectionClosed: no
\* call of a session whose transport is closed is pending, and a call that
\* was settled this way never gets another outcome.  (Within a step in which
\* time passes the transport is closed by the janitor, at its last run; a
\* call whose deadline came before that run had timed out by then.)
C18_ClosingStep ==
    \A c \in DOMAIN samplingCalls :
        LET call == samplingCalls[c]
            closedAt == IF now' = now THEN now ELSE LastIntervalRun(now')
        IN  /\ (call.pc = "pending"
                  /\ call.sessionId \notin closedTransports
                  /\ call.sessionId \in closedTransports') =>
                    /\ samplingCalls'[c].pc = "resolved"
                    /\ samplingCalls'[c].outcome =
                          (IF Earlier(closedAt, call.deadline)
                           THEN "connection_closed" ELSE "timeout")
            /\ call.outcome = "connection_closed" => samplingCalls'[c] = call

C18_NonePendingOnClosed ==
    \A c \in DOMAIN samplingCalls :
        samplingCalls[c].sessionId \in closedTransports =>
            samplingCalls[c].pc # "pending"

C20_Settled ==
    \A c \in DOMAIN samplingCalls :
        LET call == samplingCalls[c]
        IN  /\ call.pc \in {"pending", "resolved"}
            /\ call.pc = "pending" =>
                  /\ call.resolutions = 0
                  /\ call.outcome = ""
                  /\ Earlier(now, call.deadline)
            /\ call.pc = "resolved" =>
                  /\ call.resolutions = 1
                  /\ call.outcome \in {"result", "connection_closed", "timeout"}
                  /\ call.continued = (IF call.outcome = "result" THEN 1 ELSE 0)

C20_SettledStays ==
    /\ \A c \in DOMAIN samplingCalls :
          samplingCalls[c].pc = "resolved" => samplingCalls'[c] = samplingCalls[c]
    /\ \A c \in DOMAIN samplingCalls :
          (SamplingReply(c) /\ samplingCalls[c].pc = "resolved") =>
             /\ samplingCalls' = samplingCalls
             /\ closedTransports' = closedTransports
             /\ DOMAIN sessions' = DOMAIN sessions
             /\ \A sid \in DOMAIN sessions :
                   sessions'[sid] = [sessions[sid] EXCEPT !.lastAccessed = sessions'[sid].lastAccessed]

C21_Step ==
    (samplingLast'.n # samplingLast.n
        /\ samplingLast'.sessionId \notin DOMAIN sessions) =>
       /\ samplingLast'.error =
             (IF samplingLast'.sessionId = NoSession
              THEN "Session ID is required for sampling requests"
              ELSE "Session not found")
       /\ outbox' = outbox
       /\ samplingCalls' = samplingCalls

C21_SessionNotFound == [][C21_Step]_vars

\* an unknown id while another session is open, and a missing id
C21_Witness ==
    /\ samplingLast.n >= 1
    /\ samplingLast.sessionId = UnknownSession
    /\ samplingLast.error = "Session not found"
    /\ DOMAIN sessions # {}
    /\ samplingCalls = << >>
    /\ outbox = << >>

\* C22: once the client has replied, sendSamplingRequest returns the reply
\* to its caller, whatever the callback tag and whatever the continuation
\* did; a call the client has not settled returns nothing.
C22_ReplyReturned ==
    \A c \in DOMAIN samplingCalls :
        LET call == samplingCalls[c]
        IN  /\ call.outcome = "result" =>
                  /\ call.reply \in ReplyContents
                  /\ call.returned = call.reply
            /\ call.outcome # "result" => call.returned = NoReply

\* an unknown tag, and a suggest_action continuation that threw on a reply
\* that is not JSON
C22_Witness ==
    /\ Len(samplingCalls) >= 2
    /\ samplingCalls[1].callback = "create_post_callback"
    /\ samplingCalls[1].returned = PlainText
    /\ samplingCalls[2].callback = "suggest_action"
    /\ samplingCalls[2].returned = PlainText

\* C23: for a call tagged suggest_action, nothing of the continuation is
\* sent while the call awaits the reply; when the reply is a text block
\* whose JSON has a (non-empty) action and a (non-empty) reasoning, exactly
\* one notifications/sampling/complete was sent by the time the call has
\* returned, on the call's session; for every other reply none was sent.
\* No other call sends one.
C23_Completes(c) ==
    {i \in DOMAIN outbox :
        /\ outbox[i].method = "notifications/sampling/complete"
        /\ outbox[i].call = c}

C23_ValidReplies ==
    {[type |-> "text", text |-> "{\"action\":\"post\",\"reasoning\":\"r\"}"]}

C23_SuggestAction ==
    /\ \A c \in DOMAIN samplingCalls :
          LET call == samplingCalls[c]
          IN  IF call.callback = "suggest_action" /\ call.outcome = "result"
                 /\ call.reply \in C23_ValidReplies
              THEN /\ Cardinality(C23_Completes(c)) = 1
                   /\ \A i \in C23_Completes(c) :
                         outbox[i].sessionId = call.sessionId
                   /\ call.returned = call.reply
              ELSE C23_Completes(c) = {}
    /\ \A c \in DOMAIN samplingCalls :
          samplingCalls[c].pc = "pending" =>
             \A i \in DOMAIN outbox :
                outbox[i].call = c => outbox[i].method = "sampling/createMessage"
    /\ \A i \in DOMAIN outbox :
          /\ outbox[i].call \in DOMAIN samplingCalls
          /\ outbox[i].method = "notifications/sampling/complete" =>
                \E j \in 1..(i - 1) :
                   /\ outbox[j].method = "sampling/createMessage"
                   /\ outbox[j].call = outbox[i].call
                   /\ outbox[j].sessionId = outbox[i].sessionId

\* two sessions are open; one call got a valid suggestion, the other a reply
\* with an empty action
C23_Witness ==
    /\ Cardinality(DOMAIN sessions) >= 2
    /\ Len(samplingCalls) >= 2
    /\ samplingCalls[1].callback = "suggest_action"
    /\ samplingCalls[1].reply \in C23_ValidReplies
    /\ C23_Completes(1) # {}
    /\ samplingCalls[2].callback = "suggest_action"
    /\ samplingCalls[2].reply = [type |-> "text", text |-> "{\"action\":\"\",\"reasoning\":\"r\"}"]
    /\ C23_Completes(2) = {}


\* C24: every 401 that authMiddleware answers on /mcp carries a
\* WWW-Authenticate header whose resource_metadata is the URL of the
\* protected-resource metadata, whether the bearer is missing, malformed,
\* invalid or expired, and whether or not the request accepts an event stream.
C24_WwwAuthenticate ==
    (verdict # NoVerdict /\ verdict.response.status = 401) =>
        /\ verdict.response.wwwAuthenticate # NoHeader
        /\ verdict.response.wwwAuthenticate.resource_metadata[3] =
              PROTECTED_RESOURCE_PATH


\* C25: a tools/call, or a resources/read of reddit://config, handled by a
\* server that was built without upstream credentials fails with an
\* "Authentication required" error, runs no tool body and makes no upstream
\* API call.
C25_NeedsAuthority ==
    /\ rpc.params.method = "tools/call"
       \/ (rpc.params.method = "resources/read" /\ rpc.params.uri = "reddit://config")

C25_AuthenticationRequired ==
    ("params" \in DOMAIN rpc /\ C25_NeedsAuthority /\ rpc.sessionAuth = NoAuth) =>
        /\ rpc.outcome.error \in
              {"Authentication required for tool calls",
               "Failed to fetch resource: Authentication required: Reddit access token not found"}
        /\ rpc.outcome.body = ""
        /\ rpc.outcome.upstream = 0
        /\ mcpResp.error = rpc.outcome.error

\* a call of a known tool with valid arguments on a session without
\* credentials
C25_Witness ==
    /\ "params" \in DOMAIN rpc
    /\ rpc.sessionAuth = NoAuth
    /\ rpc.params.method = "tools/call"
    /\ rpc.params.name = "search_reddit"
    /\ rpc.params.arguments = [query |-> Str(4), limit |-> Num(25)]
    /\ rpc.outcome.error = "Authentication required for tool calls"

\* C26: a tools/call that names an unknown tool, or whose arguments the
\* tool's declared input schema rejects, is answered with an error; no tool
\* body runs and no upstream API call is made.
C26_BadCall ==
    /\ rpc.params.method = "tools/call"
    /\ \/ rpc.params.name \notin ToolNames
       \/ rpc.params.arguments = NoArguments
       \/ ~DeclaredSchemaAccepts(rpc.params.name, rpc.params.arguments)

C27_BadPrompt ==
    /\ rpc.params.method = "prompts/get"
    /\ \/ rpc.params.name \notin PromptNames
       \/ ~(PromptRequired(rpc.params.name) \subseteq rpc.params.given)

C27_PromptValidated ==
    ("params" \in DOMAIN rpc /\ C27_BadPrompt) =>
        /\ rpc.outcome.error # ""
        /\ ~rpc.outcome.rendered

\* C29: no upstream access token, upstream refresh token or bearer is
\* passed to the logger by a request handler.
C29_NoSecretLogged ==
    "params" \in DOMAIN rpc => rpc.outcome.logged = {}

\* C30: when the upstream token endpoint or the upstream identity endpoint
\* answers the callback with a non-2xx status, the callback fails with the
\* error kind upstream_error and creates no authorization code.
C30_UpstreamError ==
    [][\A i \in DOMAIN callbacks :
          CallbackUpstreamFailed(i) =>
              /\ callbacks'[i].status >= 400
              /\ callbacks'[i].error = "upstream_error"
              /\ authorizationCodes' = authorizationCodes]_vars

\* The half of C30 that the handler keeps: an upstream failure stores no code
C30_NoCodeCreated ==
    [][\A i \in DOMAIN callbacks :
          CallbackUpstreamFailed(i) =>
              /\ callbacks'[i].status >= 400
              /\ DOMAIN authorizationCodes' = DOMAIN authorizationCodes]_vars

\* Rows that have outlived their expiry.  A pending authorization has no
\* expiry field: its expiry is the time its setTimeout was set for.
ExpiredPendingAuthorizations ==
    {t.authKey : t \in {u \in timers : ~Earlier(now, u.at)}}
        \cap DOMAIN pendingAuthorizations

ExpiredAuthorizationCodes ==
    {k \in DOMAIN authorizationCodes : IsExpired(authorizationCodes[k])}

ExpiredRefreshTokens ==
    {k \in DOMAIN refreshTokens : IsExpired(refreshTokens[k])}

\* Every key the tables can hold
RowKeys == 1..(2 * MaxAuthorize + MaxCallbacks + MaxTokenReqs + 1)

\* The authorization flow with the event loop running the timers that are due
SpecExpiry == Init /\ [][Next]_vars /\ WF_vars(PendingTimeout)

\* C28: every row of the pending authorizations, the authorization codes and
\* the refresh tokens is eventually removed once it has expired, whether or
\* not a request presents its key again.
C28_ExpiredRowsRemoved ==
    \A k \in RowKeys :
        /\ (k \in ExpiredPendingAuthorizations) ~> (k \notin DOMAIN pendingAuthorizations)
        /\ (k \in ExpiredAuthorizationCodes) ~> (k \notin DOMAIN authorizationCodes)
        /\ (k \in ExpiredRefreshTokens) ~> (k \notin DOMAIN refreshTokens)

\* The part of C28 that the timer of the authorize endpoint provides
C28_PendingRemoved ==
    \A k \in RowKeys :
        (k \in ExpiredPendingAuthorizations) ~> (k \notin DOMAIN pendingAuthorizations)


\* C31: a session enters the table only by a request whose bearer passed
\* verification, and a request that a middleware of the chain rejects (bearer
\* check, rate limit, protocol version, request size, in that order) neither
\* creates a session nor changes the lastAccessed of one.
C31_Rejected(req) == mcpMiddleware(req, now) # 0

C31_Step ==
    (sessions' # sessions /\ now' = now) =>
        /\ \A req \in ChainInputs : C31_Rejected(req) => ~ChainRequest(req)
        /\ \E req \in ChainInputs :
              /\ ChainRequest(req)
              /\ verifyAccessToken(req.bearer, now).ok

C31_OnlyVerifiedRequests == [][C31_Step]_vars

\* a later stage has turned a verified request away while a session exists
C31_Witness ==
    /\ mcpResp.error = "rate_limited"
    /\ sessions # EmptyMap
    /\ ticks > 0


\* C32: when a request on a session of the table carries a bearer whose
\* upstream credentials differ from the session's snapshot, the snapshot
\* becomes the request's credentials and the session's server is one built
\* with them, so that the tool call of the request and those after it run
\* with the newer credentials.
C32_Step ==
    \A req \in RebindInputs :
        LET carried == SessionAuthOf(verifyAccessToken(req.bearer, now))
        IN  (/\ req.sessionId \in DOMAIN sessions
             /\ carried # NoAuth
             /\ carried # sessions[req.sessionId].auth
             /\ McpRequest(req)) =>
                /\ sessions'[req.sessionId].auth = carried
                /\ sessions'[req.sessionId].serverAuth = carried

C32_FresherCredentialsTaken == [][C32_Step]_vars


\* C33: a callback goes on to the upstream only with the pending row that
\* its state names by key and by nonce; every authorization code is stored by
\* such a callback and carries the client id, redirect URI and PKCE challenge
\* of that pending row; and the callback's redirect goes to that redirect URI
\* with the new code and the state the caller gave to the authorize endpoint.
C33_Matched(i) ==
    LET st == callbacks'[i].state
    IN  (callbacks[i].pc = "idle" /\ callbacks'[i].pc = "exchange") =>
           /\ Len(st) >= 2
           /\ st[1] \in DOMAIN pendingAuthorizations
           /\ pendingAuthorizations[st[1]].redditState = st[2]
           /\ callbacks'[i].pendingAuth = pendingAuthorizations[st[1]]

C33_Stored(code) ==
    \E i \in CallbackSlots :
        LET pendingAuth == callbacks[i].pendingAuth
            row == authorizationCodes'[code]
        IN  /\ callbacks[i].pc = "identify" /\ callbacks'[i].pc = "done"
            /\ pendingAuth # NoPending
            /\ row.clientId = pendingAuth.clientId
            /\ row.redirectUri = pendingAuth.redirectUri
            /\ row.codeChallenge = pendingAuth.codeChallenge
            /\ callbacks'[i].status = 302 =>
                  callbacks'[i].location =
                     <<pendingAuth.redirectUri, code, pendingAuth.state>>

C33_Redirected(i) ==
    (callbacks[i].status # 302 /\ callbacks'[i].status = 302) =>
        /\ callbacks'[i].location[2] \in
              (DOMAIN authorizationCodes') \ (DOMAIN authorizationCodes)
        /\ callbacks'[i].location[3] = "abc"

C33_CodeBoundToPending ==
    [][/\ \A i \in CallbackSlots : C33_Matched(i) /\ C33_Redirected(i)
       /\ \A code \in (DOMAIN authorizationCodes') \ (DOMAIN authorizationCodes) :
             C33_Stored(code)]_vars

\* a callback has redirected the caller with a code that is in the table
C33_Witness ==
    \E i \in CallbackSlots :
        /\ callbacks[i].status = 302
        /\ callbacks[i].location[2] \in DOMAIN authorizationCodes
        /\ callbacks[i].location[1] = authorizationCodes[callbacks[i].location[2]].redirectUri


\* C34: no expired row is honoured.  A callback goes on to the upstream only
\* while the timer of its pending row, set for 10 minutes after the authorize
\* request, has not come due; a token request that presents an authorization
\* code more than 10 minutes after the code was stored, or a refresh token
\* more than 30 days after it was stored, is answered invalid_grant and gets
\* no bearer.
C34_Callback(i) ==
    (callbacks[i].pc = "idle" /\ callbacks'[i].pc = "exchange") =>
        \E t \in timers :
            /\ t.authKey = callbacks'[i].state[1]
            /\ Earlier(now, t.at)

C34_Lifetimes ==
    /\ \A t \in timers' \ timers : t.at = Plus(now, AUTHORIZATION_CODE_TIMEOUT_MS)
    /\ \A k \in (DOMAIN authorizationCodes') \ (DOMAIN authorizationCodes) :
          authorizationCodes'[k].expiresAt = Plus(now, AUTHORIZATION_CODE_TIMEOUT_MS)
    /\ \A k \in (DOMAIN refreshTokens') \ (DOMAIN refreshTokens) :
          refreshTokens'[k].expiresAt = Plus(now, REFRESH_TOKEN_TIMEOUT_MS)

C34_PresentsExpired(i) ==
    LET rq == tokenReqs'[i]
    IN  /\ tokenReqs[i].pc = "idle" /\ rq.pc # "idle"
        /\ \/ /\ rq.grant_type = "authorization_code"
              /\ rq.code \in DOMAIN authorizationCodes
              /\ Earlier(authorizationCodes[rq.code].expiresAt, now)
           \/ /\ rq.grant_type = "refresh_token"
              /\ rq.refresh_token \in DOMAIN refreshTokens
              /\ Earlier(refreshTokens[rq.refresh_token].expiresAt, now)

C34_Token(i) ==
    C34_PresentsExpired(i) =>
        /\ tokenReqs'[i].pc = "done"
        /\ tokenReqs'[i].status = 400
        /\ tokenReqs'[i].error \in {"invalid_grant", "invalid_request"}
        /\ tokenReqs'[i].access_token = NoBearer
        /\ tokenReqs'[i].error = "invalid_request" =>
              (tokenReqs'[i].code_verifier = Missing \/ tokenReqs'[i].client_id = Missing
                 \/ tokenReqs'[i].redirect_uri = << >>)

C34_WitnessCallback ==
    /\ authorizeResp.status = 302
    /\ callbacks[1].state = authorizeResp.upstreamState
    /\ callbacks[1].status = 400
    /\ callbacks[1].err = Missing
    /\ timers = {}


\* C35: whatever the upstream answers, one call of redditFetch calls
\* refreshAccessToken at most once and retries after a 401 at most once.
C35_RefreshedOnce ==
    /\ fetch.refreshes <= 1
    /\ fetch.retries <= 1

\* the retries after a 401 alone
C35_RetriedOnce == fetch.retries <= 1

\* C36: every call of redditFetch ends, with the parsed response or with a
\* RedditError, whatever the upstream answers.
C36_Terminates ==
    (fetch.pc = "request") ~> (fetch.pc = "done")

\* when it ends it is with the response or with a RedditError
C36_Outcomes ==
    fetch.pc = "done" =>
        fetch.outcome \in {"json", "RedditError API_ERROR", "RedditError AUTH_ERROR"}


\* C37: a notification sent with a session id goes to the server of that
\* session and to no other, and is dropped when the session is not in the
\* table or its transport is closed; one sent without a session id goes to
\* every session of the table whose transport is open, a closed transport
\* among them stopping none of the others.
C37_Open == {s \in DOMAIN sessions : s \notin closedTransports}

C37_Delivered == {outbox'[i].sessionId : i \in (DOMAIN outbox') \ (DOMAIN outbox)}

C37_Step ==
    notified'.n # notified.n =>
        LET sid == notified'.sessionId
        IN  /\ SubSeq(outbox', 1, Len(outbox)) = outbox
            /\ \A i \in (DOMAIN outbox') \ (DOMAIN outbox) :
                  outbox'[i].method = notified'.method
            /\ C37_Delivered = (IF sid = NoSession THEN C37_Open ELSE {sid} \cap C37_Open)
            /\ Len(outbox') = Len(outbox) + Cardinality(C37_Delivered)

C37_NotificationRouting == [][C37_Step]_vars

\* a broadcast has reached the second session although the transport of the
\* first is closed
C37_Witness ==
    /\ 1 \in (DOMAIN sessions) \cap closedTransports
    /\ 2 \in DOMAIN sessions
    /\ outbox # << >>
    /\ outbox[Len(outbox)] =
          [sessionId |-> 2, method |-> "server/config/changed", call |-> 0]


\* C38: shutdown empties the session table and closes the server and the
\* transport of every session that was in it; afterwards time removes no
\* session (the janitor does not run), and a request that carries the id of a
\* session that shutdown closed is answered 404 "Session not found".
C38_Step ==
    /\ (shutdown = NoShutdown /\ shutdown' # NoShutdown) =>
          /\ sessions' = EmptyMap
          /\ shutdown'.closed = DOMAIN sessions
          /\ (DOMAIN sessions) \subseteq closedTransports'
    /\ (shutdown # NoShutdown /\ now' # now) => sessions' = sessions
    /\ shutdown # NoShutdown =>
          \A req \in ShutdownInputs :
              (req.sessionId \in shutdown.closed /\ McpRequest(req)) =>
                  /\ mcpResp'.status = 404
                  /\ mcpResp'.error = "Session not found"
                  /\ sessions' = sessions

C38_AfterShutdown ==
    /\ [](shutdown # NoShutdown => shutdown.closed \cap DOMAIN sessions = {})
    /\ [][C38_Step]_vars

\* after a shutdown that closed a session, a new session has grown older than
\* the timeout, past a time at which the janitor would have run
C38_Witness ==
    /\ shutdown # NoShutdown
    /\ shutdown.closed # {}
    /\ \E sid \in DOMAIN sessions :
          Earlier(Plus(Plus(sessions[sid].lastAccessed, SESSION_TIMEOUT_MS),
                       JANITOR_INTERVAL_MS), now)


\* C39: the authorization_code grant answers with a bearer only when the
\* redirect_uri and the client_id of the token request equal the redirect URI
\* and the client id stored with the code.
C39_Step ==
    \A i \in TokenSlots :
        (/\ tokenReqs[i].pc = "signing"
         /\ tokenReqs[i].grant_type = "authorization_code"
         /\ tokenReqs'[i].status = 200
         /\ tokenReqs'[i].access_token # NoBearer) =>
            /\ tokenReqs[i].redirect_uri = tokenReqs[i].row.redirectUri
            /\ tokenReqs[i].client_id = tokenReqs[i].row.clientId

C39_BoundToRedirectAndClient == [][C39_Step]_vars


\* C40: a successful refresh_token grant leaves the refresh-token table as it
\* was (the presented token is not removed, not replaced and its expiry is not
\* moved) and answers with no new refresh token; the token stays redeemable
\* while its 30 days last, and every bearer obtained with it carries the
\* upstream pair of the bearer issued together with it.
C40_Step ==
    \A i \in TokenSlots :
        ( /\ tokenReqs'[i].grant_type = "refresh_token"
          /\ tokenReqs'[i] # tokenReqs[i]
          /\ tokenReqs'[i].pc = "signing" \/ tokenReqs'[i].status = 200 )
        => /\ refreshTokens' = refreshTokens
           /\ tokenReqs'[i].refresh_token_out = BogusId
           /\ tokenReqs'[i].refresh_token \in DOMAIN refreshTokens'
                 => refreshTokens'[tokenReqs'[i].refresh_token]
                        = IF tokenReqs[i].pc = "signing"
                          THEN tokenReqs[i].row ELSE tokenReqs'[i].row

C40_RedeemableStep ==
    \A i \in TokenSlots :
        LET rt == tokenReqs'[i].refresh_token
        IN  ( /\ tokenReqs[i].pc = "idle"
              /\ tokenReqs'[i].pc # "idle"
              /\ tokenReqs'[i].grant_type = "refresh_token"
              /\ rt \in IssuedRefreshTokens
              /\ rt \in DOMAIN refreshTokens
              /\ ~Earlier(refreshTokens[rt].expiresAt, now) )
            => tokenReqs'[i].pc = "signing"

C40_UpstreamPair(bearer) ==
    <<bearer.payload.reddit_access_token, bearer.payload.reddit_refresh_token>>

C40_SamePair ==
    \A i, j \in TokenSlots :
        ( /\ tokenReqs[j].pc = "done" /\ tokenReqs[j].status = 200
          /\ tokenReqs[j].grant_type = "refresh_token"
          /\ tokenReqs[i].pc = "done" /\ tokenReqs[i].status = 200
          /\ \/ /\ tokenReqs[i].grant_type = "refresh_token"
                /\ tokenReqs[i].refresh_token = tokenReqs[j].refresh_token
             \/ /\ tokenReqs[i].grant_type = "authorization_code"
                /\ tokenReqs[i].refresh_token_out = tokenReqs[j].refresh_token )
        => C40_UpstreamPair(tokenReqs[i].access_token)
              = C40_UpstreamPair(tokenReqs[j].access_token)

=============================================================================
